---- MODULE Spec2Model ----
(***************************************************************************)
(* ldapmerge: the merge engine (package merger) over a model of Go's       *)
(* memory.  A slice is a header (arr, len, cap) that points into a backing *)
(* array of a heap, so that copying a header shares the array, as in Go.   *)
(***************************************************************************)
EXTENDS Integers, Sequences, FiniteSets, TLC

(* ------------------------------ bounds -------------------------------- *)

MaxDomains == 2

MaxServers == 2

MaxResults == 2

(* ----------------------- values the inputs draw on --------------------- *)

\* The join key and three near misses of it: case, trailing character, port.
URL_A == "ldaps://a:636"

URL_A_UPPER == "LDAPS://A:636"

URL_A_SLASH == "ldaps://a:636/"

URL_A_NOPORT == "ldaps://a"

\* What an in-place write by the caller stores.
TAMPERED == "X"

(* ------------------------- models.go: the types ------------------------ *)

\* A slice header; arr = 0 is the nil slice.
NilSlice == [arr |-> 0, len |-> 0, cap |-> 0]

LDAPServer(url, starttls, enabled, user, password, certs) ==
    [URL |-> url, StartTLS |-> starttls, Enabled |-> enabled,
     BindUsername |-> user, BindPassword |-> password, Certificates |-> certs]

Domain(id, name, baseDN, alt, servers) ==
    [ID |-> id, DomainName |-> name, BaseDN |-> baseDN,
     AlternativeDomainNames |-> alt, LDAPServers |-> servers]

CertificateResult(url, pem) ==
    [Item |-> [URL |-> url], JSON |-> [PEMEncoded |-> pem]]

\* The zero values make() fills a new array with.
ZeroServer == LDAPServer("", "", "", "", "", NilSlice)

ZeroDomain == Domain("", "", "", NilSlice, NilSlice)

(* ------------------------- Go's slice operations ----------------------- *)

\* n copies of a value.
RECURSIVE repeat(_, _)
repeat(value, n) == IF n = 0 THEN << >> ELSE Append(repeat(value, n - 1), value)

\* make([]T, n): a new backing array of n zero values.
make(heap, zero, n) ==
    [heap  |-> Append(heap, repeat(zero, n)),
     slice |-> [arr |-> Len(heap) + 1, len |-> n, cap |-> n]]

\* The elements a slice header shows.
elems(heap, s) == IF s.len = 0 THEN << >> ELSE SubSeq(heap[s.arr], 1, s.len)

\* append(s, x): in place while capacity lasts, else into a new array of
\* doubled capacity (the growth of the gc runtime for small slices).
append(heap, s, x) ==
    IF s.len < s.cap
    THEN [heap  |-> [heap EXCEPT ![s.arr][s.len + 1] = x],
          slice |-> [s EXCEPT !.len = s.len + 1]]
    ELSE LET newcap == IF s.cap = 0 THEN 1 ELSE 2 * s.cap
             grown  == Append(elems(heap, s), x) \o repeat("", newcap - s.len - 1)
         IN  [heap  |-> Append(heap, grown),
              slice |-> [arr |-> Len(heap) + 1, len |-> s.len + 1, cap |-> newcap]]

(* ----------------------- merger.buildCertificateMap -------------------- *)

\* buildStep with the new certificate put in front of the list.
buildStepPrepend(st, result) ==
    LET url == result.Item.URL
        pem == result.JSON.PEMEncoded
        old == IF url \in DOMAIN st.certMap
               THEN elems(st.heap, st.certMap[url]) ELSE << >>
        new == IF pem # "" THEN <<pem>> \o old ELSE old
    IN  IF url = "" THEN st
        ELSE [heap    |-> Append(st.heap, new),
              certMap |-> [u \in DOMAIN st.certMap \cup {url} |->
                             IF u = url
                             THEN [arr |-> Len(st.heap) + 1, len |-> Len(new),
                                   cap |-> Len(new)]
                             ELSE st.certMap[u]]]

\* buildStep without the test for an empty pem_encoded.
buildStepNoSkip(st, result) ==
    LET url == result.Item.URL
    IN  IF url = "" THEN st
        ELSE LET fresh == make(st.heap, "", 0)
                 st1 == IF url \in DOMAIN st.certMap THEN st
                        ELSE [heap    |-> fresh.heap,
                              certMap |-> [u \in DOMAIN st.certMap \cup {url} |->
                                             IF u = url THEN fresh.slice
                                             ELSE st.certMap[u]]]
                 a == append(st1.heap, st1.certMap[url], result.JSON.PEMEncoded)
             IN  [heap    |-> a.heap,
                  certMap |-> [st1.certMap EXCEPT ![url] = a.slice]]

\* buildStep without the test for an empty item url.
buildStepKeepEmptyURL(st, result) ==
    LET url == result.Item.URL
        fresh == make(st.heap, "", 0)
        st1 == IF url \in DOMAIN st.certMap THEN st
               ELSE [heap    |-> fresh.heap,
                     certMap |-> [u \in DOMAIN st.certMap \cup {url} |->
                                    IF u = url THEN fresh.slice
                                    ELSE st.certMap[u]]]
    IN  IF result.JSON.PEMEncoded # ""
        THEN LET a == append(st1.heap, st1.certMap[url],
                             result.JSON.PEMEncoded)
             IN  [heap    |-> a.heap,
                  certMap |-> [st1.certMap EXCEPT ![url] = a.slice]]
        ELSE st1

\* One pass of the loop body over a result: st = [heap, certMap], where heap
\* is the heap of string arrays.
buildStep(st, result) ==
    LET url == result.Item.URL
    IN  IF url = "" THEN st
        ELSE LET fresh == make(st.heap, "", 0)
                 st1 == IF url \in DOMAIN st.certMap THEN st
                        ELSE [heap    |-> fresh.heap,
                              certMap |-> [u \in DOMAIN st.certMap \cup {url} |->
                                             IF u = url THEN fresh.slice
                                             ELSE st.certMap[u]]]
             IN  IF result.JSON.PEMEncoded # ""
                 THEN LET a == append(st1.heap, st1.certMap[url],
                                      result.JSON.PEMEncoded)
                      IN  [heap    |-> a.heap,
                           certMap |-> [st1.certMap EXCEPT ![url] = a.slice]]
                 ELSE st1

RECURSIVE buildLoop(_, _, _)
buildLoop(st, results, k) ==
    IF k > Len(results) THEN st
    ELSE buildLoop(buildStep(st, results[k]), results, k + 1)

\* The empty Go map.
EmptyMap == [u \in {} |-> NilSlice]

\* h = [str, srv, dom, res] are the heaps of string, server, domain and
\* result arrays.
buildCertificateMap(h, response) ==
    buildLoop([heap |-> h.str, certMap |-> EmptyMap],
              elems(h.res, response.Results), 1)

(* ------------------------------ merger.Merge --------------------------- *)

\* A URL in lower case and without a trailing slash.
Normalized(url) ==
    IF url \in {URL_A_UPPER, URL_A_SLASH} THEN URL_A ELSE url

\* lookup by the normalized URL.
lookupNormalized(certMap, url) ==
    LET hits == {u \in DOMAIN certMap : Normalized(u) = Normalized(url)}
    IN  IF hits # {}
        THEN [certs |-> certMap[CHOOSE u \in hits : TRUE], exists |-> TRUE]
        ELSE [certs |-> NilSlice, exists |-> FALSE]

\* certs, exists := certMap[server.URL]
lookup(certMap, url) ==
    IF url \in DOMAIN certMap
    THEN [certs |-> certMap[url], exists |-> TRUE]
    ELSE [certs |-> NilSlice, exists |-> FALSE]

\* mergedServer that keeps the input's certificates when nothing matches.
mergedServerKeep(certMap, server) ==
    LET found == lookup(certMap, server.URL)
    IN  IF found.exists /\ found.certs.len > 0
        THEN [server EXCEPT !.Certificates = found.certs]
        ELSE server

\* mergedServer that rewrites the string booleans in lower case.
mergedServerCoerce(certMap, server) ==
    LET lower(b) == IF b = "True" THEN "true" ELSE IF b = "False" THEN "false" ELSE b
        copy  == LDAPServer(server.URL, lower(server.StartTLS), lower(server.Enabled),
                            server.BindUsername, server.BindPassword, NilSlice)
        found == lookup(certMap, server.URL)
    IN  IF found.exists /\ found.certs.len > 0
        THEN [copy EXCEPT !.Certificates = found.certs]
        ELSE copy

\* The server built for result[i].LDAPServers[j].
mergedServer(certMap, server) ==
    LET copy  == LDAPServer(server.URL, server.StartTLS, server.Enabled,
                            server.BindUsername, server.BindPassword, NilSlice)
        found == lookup(certMap, server.URL)
    IN  IF found.exists /\ found.certs.len > 0
        THEN [copy EXCEPT !.Certificates = found.certs]
        ELSE copy

\* mergeServer that appends the matched certificates to the input's.
mergeServerAdd(h, certMap, src, dst, j) ==
    LET server == h.srv[src.arr][j]
        found  == lookup(certMap, server.URL)
        all    == elems(h.str, server.Certificates) \o elems(h.str, found.certs)
        copy   == LDAPServer(server.URL, server.StartTLS, server.Enabled,
                             server.BindUsername, server.BindPassword,
                             [arr |-> Len(h.str) + 1, len |-> Len(all),
                              cap |-> Len(all)])
    IN  [h EXCEPT !.str = Append(h.str, all), !.srv[dst.arr][j] = copy]

\* mergeServer that sets the certificates on the input server as well.
mergeServerInPlace(h, certMap, src, dst, j) ==
    LET out == mergedServer(certMap, h.srv[src.arr][j])
    IN  [h EXCEPT !.srv[src.arr][j].Certificates = out.Certificates,
                  !.srv[dst.arr][j] = out]

\* The inner loop's body: from the j-th input server of `src` to the j-th
\* output server of `dst`.
mergeServer(h, certMap, src, dst, j) ==
    [h EXCEPT !.srv[dst.arr][j] = mergedServer(certMap, h.srv[src.arr][j])]

RECURSIVE serverLoop(_, _, _, _, _)
serverLoop(h, certMap, src, dst, j) ==
    IF j > src.len THEN h
    ELSE serverLoop(mergeServer(h, certMap, src, dst, j), certMap, src, dst, j + 1)

\* The outer loop's body for domain i: result[i] = models.Domain{...}, then
\* the inner loop.
mergeDomain(h, certMap, domains, result, i) ==
    LET domain  == h.dom[domains.arr][i]
        servers == make(h.srv, ZeroServer, domain.LDAPServers.len)
        h1 == [h EXCEPT !.srv = servers.heap,
                        !.dom[result.arr][i] =
                            Domain(domain.ID, domain.DomainName, domain.BaseDN,
                                   domain.AlternativeDomainNames, servers.slice)]
    IN  serverLoop(h1, certMap, domain.LDAPServers, servers.slice, 1)

RECURSIVE domainLoop(_, _, _, _, _)
domainLoop(h, certMap, domains, result, i) ==
    IF i > domains.len THEN h
    ELSE domainLoop(mergeDomain(h, certMap, domains, result, i),
                    certMap, domains, result, i + 1)

\* Merge that returns its argument when the response has no results.
MergeShortcut(h, domains, response) ==
    LET built  == buildCertificateMap(h, response)
        result == make(h.dom, ZeroDomain, domains.len)
        h1     == [h EXCEPT !.str = built.heap, !.dom = result.heap]
    IN  IF response.Results.len = 0
        THEN [h |-> h, certMap |-> EmptyMap, result |-> domains]
        ELSE [h       |-> domainLoop(h1, built.certMap, domains, result.slice, 1),
              certMap |-> built.certMap,
              result  |-> result.slice]

\* Merge that leaves out the domains that have no servers.
MergeSkipEmpty(h, domains, response) ==
    LET built  == buildCertificateMap(h, response)
        kept   == SelectSeq(elems(h.dom, domains), LAMBDA d : d.LDAPServers.len > 0)
        input  == make(h.dom, ZeroDomain, Len(kept))
        h0     == [h EXCEPT !.dom = Append(h.dom, kept)]
        result == make(h0.dom, ZeroDomain, Len(kept))
        h1     == [h0 EXCEPT !.str = built.heap, !.dom = result.heap]
    IN  [h       |-> domainLoop(h1, built.certMap, input.slice, result.slice, 1),
         certMap |-> built.certMap,
         result  |-> result.slice]

\* Merge(domains, response): the heaps after the call, the index it built and
\* the slice it returns.
Merge(h, domains, response) ==
    LET built  == buildCertificateMap(h, response)
        result == make(h.dom, ZeroDomain, domains.len)
        h1     == [h EXCEPT !.str = built.heap, !.dom = result.heap]
    IN  [h       |-> domainLoop(h1, built.certMap, domains, result.slice, 1),
         certMap |-> built.certMap,
         result  |-> result.slice]

(* --------------------- the values behind the headers ------------------- *)

ServerValue(h, s) ==
    [s EXCEPT !.Certificates = elems(h.str, s.Certificates)]

DomainValue(h, d) ==
    LET servers == elems(h.srv, d.LDAPServers)
    IN  [d EXCEPT !.AlternativeDomainNames = elems(h.str, d.AlternativeDomainNames),
                  !.LDAPServers = [j \in 1..Len(servers) |-> ServerValue(h, servers[j])]]

\* A []models.Domain as the nested lists it shows.
DomainsValue(h, domains) ==
    LET ds == elems(h.dom, domains)
    IN  [i \in 1..Len(ds) |-> DomainValue(h, ds[i])]

\* A CertificateResponse as the list of results it shows.
ResponseValue(h, response) == [Results |-> elems(h.res, response.Results)]

\* The index as url -> list.
IndexValue(h, certMap) == [u \in DOMAIN certMap |-> elems(h.str, certMap[u])]

(* ------------------- json.Unmarshal: the inputs in memory -------------- *)

\* A decoded list: absent or empty is the nil slice.
loadList(heap, list) ==
    IF list = << >> THEN [heap |-> heap, slice |-> NilSlice]
    ELSE [heap  |-> Append(heap, list),
          slice |-> [arr |-> Len(heap) + 1, len |-> Len(list), cap |-> Len(list)]]

\* The decoded servers of one domain: acc collects their records.
RECURSIVE loadServers(_, _, _, _)
loadServers(str, servers, j, acc) ==
    IF j > Len(servers) THEN [str |-> str, records |-> acc]
    ELSE LET certs == loadList(str, servers[j].Certificates)
         IN  loadServers(certs.heap, servers, j + 1,
                         Append(acc, [servers[j] EXCEPT !.Certificates = certs.slice]))

RECURSIVE loadDomains(_, _, _, _)
loadDomains(h, list, i, acc) ==
    IF i > Len(list)
    THEN LET d == loadList(h.dom, acc)
         IN  [h |-> [h EXCEPT !.dom = d.heap], slice |-> d.slice]
    ELSE LET alt     == loadList(h.str, list[i].AlternativeDomainNames)
             servers == loadServers(alt.heap, list[i].LDAPServers, 1, << >>)
             array   == loadList(h.srv, servers.records)
         IN  loadDomains([h EXCEPT !.str = servers.str, !.srv = array.heap],
                         list, i + 1,
                         Append(acc, [list[i] EXCEPT
                                        !.AlternativeDomainNames = alt.slice,
                                        !.LDAPServers = array.slice]))

\* LoadInitialFromFile: the decoded domain list.
LoadInitialFromFile(h, list) == loadDomains(h, list, 1, << >>)

\* LoadResponseFromFile: the decoded response.
LoadResponseFromFile(h, resp) ==
    LET r == loadList(h.res, resp.Results)
    IN  [h |-> [h EXCEPT !.res = r.heap], response |-> [Results |-> r.slice]]

(* ------------------------------ the inputs ----------------------------- *)

SeqsUpTo(S, n) == UNION {[1..m -> S] : m \in 0..n}

\* Servers as they arrive: string booleans in more than one spelling, with
\* and without credentials, with and without certificates of an earlier merge.
ServerPool ==
    {LDAPServer(URL_A, "True", "true", "sync@example.lab", "secret", <<"OLD">>),
     LDAPServer(URL_A_UPPER, "false", "", "", "", << >>),
     LDAPServer("", "false", "false", "", "", <<"OLD">>)}

\* Results as they arrive: two certificates for one url, a failed fetch (no
\* PEM), a result without url, and results for near misses of the url.
ResultPool ==
    {CertificateResult(URL_A, "A"),
     CertificateResult(URL_A, "B"),
     CertificateResult(URL_A, ""),
     CertificateResult("", "E"),
     CertificateResult(URL_A_SLASH, "C"),
     CertificateResult(URL_A_NOPORT, "D")}

DomainNames == <<"example.lab", "corp.lab", "dev.lab", "test.lab">>

\* The i-th domain of an input: ids are unique, every other one has
\* alternative names.
DomainAt(i, servers) ==
    LET name == DomainNames[((i - 1) % Len(DomainNames)) + 1]
    IN  Domain(name, name, "DC=lab",
               IF i % 2 = 0 THEN <<"alt.lab">> ELSE << >>, servers)

RECURSIVE total(_)
total(counts) == IF counts = << >> THEN 0 ELSE Head(counts) + total(Tail(counts))

\* Domain lists of at most MaxDomains domains and MaxServers servers in all.
DomainInputs ==
    UNION {{[i \in 1..n |-> DomainAt(i, f[i])] :
              f \in {g \in [1..n -> SeqsUpTo(ServerPool, MaxServers)] :
                       total([i \in 1..n |-> Len(g[i])]) <= MaxServers}} :
           n \in 0..MaxDomains}

ResponseInputs == {[Results |-> r] : r \in SeqsUpTo(ResultPool, MaxResults)}

(* ---------------------------- the state machine ------------------------ *)

VARIABLES
    heap,      \* the heaps: str, srv, dom, res
    domains,   \* Merge's first argument, a []models.Domain
    response,  \* Merge's second argument, a *models.CertificateResponse
    certMap,   \* the index the last call built
    result,    \* what the first call returned
    result2,   \* what the call on the first call's result returned
    pc,        \* "start", "merged", "remerged", "changed"
    initial,   \* the domain list as decoded, before any call
    received,  \* the response as decoded, before any call
    merged,    \* the first call's result as it was returned
    index,     \* the index as the first call built it
    changed,   \* <<i, j, k>>: the output certificate the caller overwrote
    calls,     \* the Merge calls in progress on the server's one Merger
    nsx,       \* NSX Manager: its identity sources and the requests it got
    run,       \* a run of `sync` or `nsx push`: flags, locals and position
    repo,      \* the repository: the history and nsx_configs tables
    reply      \* the API's answer to the last request

vars == <<heap, domains, response, certMap, result, result2, pc,
          initial, received, merged, index, changed, calls,
          nsx, run, repo, reply>>

\* The state of one caller's Merge, apart from the heap.
callerVars == <<domains, response, certMap, result, result2, pc,
                initial, received, merged, index, changed>>

\* The state of the command line's NSX commands and of the API server.
syncVars == <<nsx, run>>

apiVars == <<repo, reply>>

\* The state outside a single caller's Merge.
elsewhere == <<calls, syncVars, apiVars>>

\* No NSX command is running.
SyncIdle == nsx = << >> /\ run = << >>

\* No API server is running.
ApiIdle == repo = << >> /\ reply = << >>

\* Nothing but the single caller is running.
ElsewhereIdle == calls = << >> /\ SyncIdle /\ ApiIdle

EmptyHeap == [str |-> << >>, srv |-> << >>, dom |-> << >>, res |-> << >>]

Init ==
    \E list \in DomainInputs, resp \in ResponseInputs :
      \E d \in {LoadInitialFromFile(EmptyHeap, list)} :
        \E r \in {LoadResponseFromFile(d.h, resp)} :
            /\ heap = r.h
            /\ domains = d.slice
            /\ response = r.response
            /\ certMap = EmptyMap
            /\ result = NilSlice
            /\ result2 = NilSlice
            /\ pc = "start"
            /\ initial = list
            /\ received = resp
            /\ merged = << >>
            /\ index = EmptyMap
            /\ changed = << >>
            /\ ElsewhereIdle

\* result := merger.Merge(domains, response)
CallMerge ==
    /\ pc = "start"
    /\ \E r \in {Merge(heap, domains, response)} :
           /\ heap' = r.h
           /\ certMap' = r.certMap
           /\ result' = r.result
           /\ merged' = DomainsValue(r.h, r.result)
           /\ index' = IndexValue(r.h, r.certMap)
    /\ pc' = "merged"
    /\ UNCHANGED <<domains, response, result2, initial, received, changed>>
    /\ UNCHANGED elsewhere

\* merger.Merge(result, response): the result merged again.
CallMergeAgain ==
    /\ pc = "merged"
    /\ \E r \in {Merge(heap, result, response)} :
           /\ heap' = r.h
           /\ certMap' = r.certMap
           /\ result2' = r.result
    /\ pc' = "remerged"
    /\ UNCHANGED <<domains, response, result, initial, received, merged,
                   index, changed>>
    /\ UNCHANGED elsewhere

\* The caller writes result[i].LDAPServers[j].Certificates[k] = TAMPERED.
ChangeCertificate ==
    /\ pc = "merged"
    /\ \E i \in 1..result.len :
         LET servers == heap.dom[result.arr][i].LDAPServers
         IN  \E j \in 1..servers.len :
               LET certs == heap.srv[servers.arr][j].Certificates
               IN  \E k \in 1..certs.len :
                     /\ heap' = [heap EXCEPT !.str[certs.arr][k] = TAMPERED]
                     /\ changed' = <<i, j, k>>
    /\ pc' = "changed"
    /\ UNCHANGED <<domains, response, certMap, result, result2,
                   initial, received, merged, index>>
    /\ UNCHANGED elsewhere

Next == CallMerge \/ CallMergeAgain \/ ChangeCertificate

Spec == Init /\ [][Next]_vars

(* ------------- the same call without the results that have no url ------ *)

\* The results whose item url is not empty, in their order.
WithoutEmptyURL(results) == SelectSeq(results, LAMBDA r : r.Item.URL # "")

\* merger.Merge(domains, stripped), where stripped is the response decoded
\* from the same document with the results of empty item url taken out.
CallMergeStripped ==
    /\ pc = "merged"
    /\ \E s \in {LoadResponseFromFile(heap,
                      [Results |-> WithoutEmptyURL(received.Results)])} :
         \E r \in {Merge(s.h, domains, s.response)} :
           /\ heap' = r.h
           /\ certMap' = r.certMap
           /\ result2' = r.result
    /\ pc' = "stripped"
    /\ UNCHANGED <<domains, response, result, initial, received, merged,
                   index, changed>>
    /\ UNCHANGED elsewhere

NextStripped == CallMerge \/ CallMergeStripped

SpecStripped == Init /\ [][NextStripped]_vars

(* --------------- concurrent calls on the server's one Merger ----------- *)

\* The requests in flight at once.
MaxCallers == 2

Callers == 1..MaxCallers

\* Request bodies of POST /api/merge: two domains and a certificate, one
\* domain and another certificate for the same url, and a body whose
\* response has no results.
Requests ==
    <<[initial  |-> <<DomainAt(1, <<LDAPServer(URL_A, "True", "true", "", "", <<"OLD">>)>>),
                      DomainAt(2, <<LDAPServer(URL_A_UPPER, "false", "", "", "", << >>)>>)>>,
       response |-> [Results |-> <<CertificateResult(URL_A, "A")>>]],
      [initial  |-> <<DomainAt(1, <<LDAPServer(URL_A, "false", "false", "", "", << >>)>>),
                      DomainAt(2, << >>)>>,
       response |-> [Results |-> <<CertificateResult(URL_A, "B")>>]],
      [initial  |-> <<DomainAt(1, <<LDAPServer(URL_A, "false", "false", "", "", << >>),
                                    LDAPServer("", "false", "false", "", "", <<"OLD">>)>>)>>,
       response |-> [Results |-> << >>]]>>

\* What one call returns when nothing else runs.
MergeAlone(request) ==
    LET d == LoadInitialFromFile(EmptyHeap, request.initial)
        r == LoadResponseFromFile(d.h, request.response)
        m == Merge(r.h, d.slice, r.response)
    IN  DomainsValue(m.h, m.result)

\* The bodies decoded, one after the other: each call's arguments and the
\* locals of its Merge before its first statement.
RECURSIVE decodeRequests(_, _, _)
decodeRequests(h, requests, acc) ==
    IF requests = << >> THEN [h |-> h, calls |-> acc]
    ELSE LET d == LoadInitialFromFile(h, Head(requests).initial)
             r == LoadResponseFromFile(d.h, Head(requests).response)
         IN  decodeRequests(r.h, Tail(requests),
                 Append(acc, [pc       |-> "build",
                              domains  |-> d.slice,
                              response |-> r.response,
                              certMap  |-> EmptyMap,
                              result   |-> NilSlice,
                              k        |-> 1,
                              i        |-> 1,
                              body     |-> Head(requests),
                              out      |-> << >>]))

\* The single caller's variables, unused while the server runs.
CallerIdle ==
    /\ domains = NilSlice
    /\ response = [Results |-> NilSlice]
    /\ certMap = EmptyMap
    /\ result = NilSlice
    /\ result2 = NilSlice
    /\ pc = "serving"
    /\ initial = << >>
    /\ received = [Results |-> << >>]
    /\ merged = << >>
    /\ index = EmptyMap
    /\ changed = << >>

\* Every caller has a request of its own, decoded.
InitConcurrent ==
    /\ CallerIdle
    /\ SyncIdle
    /\ ApiIdle
    /\ \E f \in {g \in [Callers -> 1..Len(Requests)] :
                   \A a, b \in Callers : a # b => g[a] # g[b]} :
         \E d \in {decodeRequests(EmptyHeap, [c \in Callers |-> Requests[f[c]]], << >>)} :
           /\ heap = d.h
           /\ calls = d.calls

\* certMapOf with the index kept on the Merger: every call uses the first
\* call's.
certMapOfMerger(all, c) == all[1].certMap

\* The index a call reads and extends: the local certMap of that call.
certMapOf(all, c) == all[c].certMap

\* One pass of buildCertificateMap's loop in call c.
BuildOne(c) ==
    /\ calls[c].pc = "build"
    /\ calls[c].k <= calls[c].response.Results.len
    /\ \E st \in {buildStep([heap |-> heap.str, certMap |-> certMapOf(calls, c)],
                            heap.res[calls[c].response.Results.arr][calls[c].k])} :
         /\ heap' = [heap EXCEPT !.str = st.heap]
         /\ calls' = [calls EXCEPT ![c].certMap = st.certMap,
                                    ![c].k = calls[c].k + 1]
    /\ UNCHANGED <<callerVars, syncVars, apiVars>>

\* result := make([]models.Domain, len(domains)) in call c.
MakeResult(c) ==
    /\ calls[c].pc = "build"
    /\ calls[c].k > calls[c].response.Results.len
    /\ \E r \in {make(heap.dom, ZeroDomain, calls[c].domains.len)} :
         /\ heap' = [heap EXCEPT !.dom = r.heap]
         /\ calls' = [calls EXCEPT ![c].result = r.slice, ![c].pc = "merge"]
    /\ UNCHANGED <<callerVars, syncVars, apiVars>>

\* One pass of Merge's outer loop in call c.
MergeOneDomain(c) ==
    /\ calls[c].pc = "merge"
    /\ calls[c].i <= calls[c].domains.len
    /\ heap' = mergeDomain(heap, certMapOf(calls, c), calls[c].domains,
                            calls[c].result, calls[c].i)
    /\ calls' = [calls EXCEPT ![c].i = calls[c].i + 1]
    /\ UNCHANGED <<callerVars, syncVars, apiVars>>

\* return result in call c: the handler has the merged domains.
ReturnResult(c) ==
    /\ calls[c].pc = "merge"
    /\ calls[c].i > calls[c].domains.len
    /\ calls' = [calls EXCEPT ![c].pc = "done",
                               ![c].out = DomainsValue(heap, calls[c].result)]
    /\ UNCHANGED heap
    /\ UNCHANGED <<callerVars, syncVars, apiVars>>

NextConcurrent ==
    \E c \in Callers :
        BuildOne(c) \/ MakeResult(c) \/ MergeOneDomain(c) \/ ReturnResult(c)

SpecConcurrent == InitConcurrent /\ [][NextConcurrent]_vars

(* ------------------- nsx: the client and the converters ---------------- *)

\* The batch pushed by one run.
MaxSources == 2

\* nsx.LDAPServer and nsx.LDAPIdentitySource.
NSXServer(url, starttls, enabled, bind, password, certs) ==
    [URL |-> url, UseStartTLS |-> starttls, Enabled |-> enabled,
     BindIdentity |-> bind, Password |-> password, Certificates |-> certs]

LDAPIdentitySource(id, display, description, kind, name, baseDN, alt, servers) ==
    [ID |-> id, DisplayName |-> display, Description |-> description,
     ResourceType |-> kind, DomainName |-> name, BaseDN |-> baseDN,
     AlternativeDomainNames |-> alt, LDAPServers |-> servers]

\* strconv.FormatBool
FormatBool(b) == IF b THEN "true" ELSE "false"

\* strconv.ParseBool with its error dropped: false for every other string.
ParseBool(str) == str \in {"1", "t", "T", "TRUE", "true", "True"}

DomainToLDAPIdentitySource(d) ==
    LDAPIdentitySource(d.ID, d.DomainName, "", "LdapIdentitySource",
        d.DomainName, d.BaseDN, d.AlternativeDomainNames,
        [i \in 1..Len(d.LDAPServers) |->
            NSXServer(d.LDAPServers[i].URL,
                      ParseBool(d.LDAPServers[i].StartTLS),
                      ParseBool(d.LDAPServers[i].Enabled),
                      d.LDAPServers[i].BindUsername,
                      d.LDAPServers[i].BindPassword,
                      d.LDAPServers[i].Certificates)])

LDAPIdentitySourceToDomain(src) ==
    Domain(src.ID, src.DomainName, src.BaseDN, src.AlternativeDomainNames,
        [i \in 1..Len(src.LDAPServers) |->
            LDAPServer(src.LDAPServers[i].URL,
                       FormatBool(src.LDAPServers[i].UseStartTLS),
                       FormatBool(src.LDAPServers[i].Enabled),
                       src.LDAPServers[i].BindIdentity,
                       src.LDAPServers[i].Password,
                       src.LDAPServers[i].Certificates)])

DomainsToLDAPIdentitySources(list) ==
    [i \in 1..Len(list) |-> DomainToLDAPIdentitySource(list[i])]

LDAPIdentitySourcesToDomains(sources) ==
    [i \in 1..Len(sources) |-> LDAPIdentitySourceToDomain(sources[i])]

\* NSX Manager after a PUT of `source` it accepted: the source of that id
\* replaced, or a new one.
putSource(sources, source) ==
    IF \E k \in 1..Len(sources) : sources[k].ID = source.ID
    THEN [k \in 1..Len(sources) |->
            IF sources[k].ID = source.ID THEN source ELSE sources[k]]
    ELSE Append(sources, source)

\* What a request can come to: answered 2xx, answered 400 or above, or no
\* answer at all.
Outcomes == {"ok", "rejected", "unreachable"}

\* doRequest: NSX Manager after the request, whatever the client then sees.
doRequest(manager, method, source, outcome) ==
    [manager EXCEPT
        !.requests = IF outcome = "unreachable" THEN @
                     ELSE Append(@, [method |-> method, id |-> source.ID,
                                     answer |-> outcome]),
        !.sources  = IF outcome = "ok" /\ method = "PUT"
                     THEN putSource(@, source) ELSE @]

\* The error a client call returns: "" is nil.
errorOf(outcome) ==
    IF outcome = "ok" THEN ""
    ELSE IF outcome = "rejected" THEN "API error" ELSE "request failed"

(* ------------------------ cli: sync and nsx push ----------------------- *)

\* The identity sources NSX Manager can hold.
SourcePool ==
    <<LDAPIdentitySource("example.lab", "Example", "primary directory",
          "LdapIdentitySource", "example.lab", "DC=example,DC=lab", << >>,
          <<NSXServer(URL_A, TRUE, TRUE, "sync@example.lab", "secret", <<"OLD">>)>>),
      LDAPIdentitySource("corp.lab", "corp.lab", "", "LdapIdentitySource",
          "corp.lab", "DC=corp,DC=lab", <<"alt.lab">>,
          <<NSXServer(URL_A_UPPER, FALSE, FALSE, "", "", << >>)>>),
      LDAPIdentitySource("dev.lab", "dev.lab", "", "LdapIdentitySource",
          "dev.lab", "DC=dev,DC=lab", << >>, << >>)>>

\* Lists of at most MaxSources sources with different ids.
SourceLists ==
    UNION {{[i \in 1..n |-> SourcePool[f[i]]] :
              f \in {g \in [1..n -> 1..Len(SourcePool)] :
                       \A a, b \in 1..n : a # b => g[a] # g[b]}} :
           n \in 0..MaxSources}

\* The file given with -r: unreadable, or a response.
ResponseFiles ==
    {[readable |-> FALSE, content |-> [Results |-> << >>]],
     [readable |-> TRUE, content |-> [Results |-> << >>]],
     [readable |-> TRUE,
      content |-> [Results |-> <<CertificateResult(URL_A, "A"),
                                 CertificateResult(URL_A, "B")>>]]}

\* A run before its first statement.
NewRun(cmd, dryRun, output, responseFile, initialFile) ==
    [cmd |-> cmd, dryRun |-> dryRun, output |-> output,
     responseFile |-> responseFile, initialFile |-> initialFile,
     pc |-> IF cmd = "sync" THEN "pull" ELSE "load",
     initial |-> << >>, response |-> [Results |-> << >>], merged |-> << >>,
     sources |-> << >>, n |-> 1, successCount |-> 0, errorCount |-> 0,
     attempted |-> << >>, console |-> << >>, err |-> "", cause |-> "",
     file |-> [written |-> FALSE, content |-> << >>]]

\* `ldapmerge sync` against an NSX Manager that holds some sources, with and
\* without --dry-run and -o; or `ldapmerge nsx push` of a file.
InitSync ==
    /\ CallerIdle
    /\ heap = EmptyHeap
    /\ calls = << >>
    /\ ApiIdle
    /\ \E held \in SourceLists :
         /\ nsx = [sources |-> held, requests |-> << >>, seeded |-> held]
         /\ \/ \E dryRun \in BOOLEAN, output \in BOOLEAN, file \in ResponseFiles :
                 run = NewRun("sync", dryRun, output, file,
                              [readable |-> FALSE, content |-> << >>])
            \/ \E readable \in BOOLEAN :
                 run = NewRun("push", FALSE, FALSE,
                              [readable |-> FALSE, content |-> [Results |-> << >>]],
                              [readable |-> readable,
                               content  |-> LDAPIdentitySourcesToDomains(held)])

\* Step 1: client.ListLDAPIdentitySources, then the conversion.
pullStep(r, manager, outcome) ==
    IF outcome = "ok"
    THEN [r EXCEPT !.initial = LDAPIdentitySourcesToDomains(manager.sources),
                   !.pc = "loadResponse"]
    ELSE [r EXCEPT !.err = "pull failed", !.cause = errorOf(outcome),
                   !.pc = "done"]

Pull ==
    /\ run.pc = "pull"
    /\ \E outcome \in Outcomes :
         /\ nsx' = doRequest(nsx, "GET", [ID |-> ""], outcome)
         /\ run' = pullStep(run, nsx, outcome)
    /\ UNCHANGED <<heap, callerVars, calls, apiVars>>

\* Step 2: LoadResponseFromFile and Merge.
mergeStep(r) ==
    IF ~r.responseFile.readable
    THEN [r EXCEPT !.err = "failed to load response file", !.pc = "done"]
    ELSE [r EXCEPT !.response = r.responseFile.content,
                   !.merged = MergeAlone([initial  |-> r.initial,
                                          response |-> r.responseFile.content]),
                   !.pc = "save"]

LoadAndMerge ==
    /\ run.pc = "loadResponse"
    /\ run' = mergeStep(run)
    /\ UNCHANGED <<heap, callerVars, calls, apiVars, nsx>>

\* pushSkipped that never leaves step 3 out.
pushSkippedNever(r) == FALSE

\* Whether step 3 is left out.
pushSkipped(r) == r.dryRun

\* saveStep that goes on to step 3 when the file could not be written.
saveStepCarryOn(r, written) ==
    LET saved == IF r.output /\ written
                 THEN [r EXCEPT !.file = [written |-> TRUE, content |-> r.merged]]
                 ELSE r
    IN  IF pushSkipped(saved)
        THEN [saved EXCEPT !.pc = "done"]
        ELSE [saved EXCEPT !.sources = DomainsToLDAPIdentitySources(r.merged),
                           !.pc = "push"]

\* The output file, if asked for, then the choice of step 3.
saveStep(r, written) ==
    IF r.output /\ ~written
    THEN [r EXCEPT !.err = "failed to save output", !.pc = "done"]
    ELSE LET saved == IF r.output
                      THEN [r EXCEPT !.file = [written |-> TRUE, content |-> r.merged]]
                      ELSE r
         IN  IF pushSkipped(saved)
             THEN [saved EXCEPT !.pc = "done"]
             ELSE [saved EXCEPT !.sources = DomainsToLDAPIdentitySources(r.merged),
                                !.pc = "push"]

SaveOutput ==
    /\ run.pc = "save"
    /\ \E written \in (IF run.output THEN BOOLEAN ELSE {TRUE}) :
         run' = saveStep(run, written)
    /\ UNCHANGED <<heap, callerVars, calls, apiVars, nsx>>

\* nsx push: LoadInitialFromFile, then the conversion.
loadStep(r) ==
    IF ~r.initialFile.readable
    THEN [r EXCEPT !.err = "failed to load file", !.pc = "done"]
    ELSE [r EXCEPT !.sources = DomainsToLDAPIdentitySources(r.initialFile.content),
                   !.pc = "push"]

LoadInitial ==
    /\ run.pc = "load"
    /\ run' = loadStep(run)
    /\ UNCHANGED <<heap, callerVars, calls, apiVars, nsx>>

\* pushStep that gives up at the first failed PUT.
pushStepAbort(r, source, err) ==
    IF err = ""
    THEN [r EXCEPT !.attempted = Append(@, source.ID),
                   !.console = Append(@, [id |-> source.ID, ok |-> TRUE]),
                   !.successCount = @ + 1,
                   !.n = @ + 1]
    ELSE [r EXCEPT !.attempted = Append(@, source.ID),
                   !.console = Append(@, [id |-> source.ID, ok |-> FALSE]),
                   !.errorCount = @ + 1,
                   !.err = "push failed",
                   !.pc = "done"]

\* pushStep that makes a failed PUT the command's error.
pushStepFailing(r, source, err) ==
    [r EXCEPT !.attempted = Append(@, source.ID),
              !.console = Append(@, [id |-> source.ID, ok |-> err = ""]),
              !.successCount = IF err = "" THEN @ + 1 ELSE @,
              !.errorCount = IF err = "" THEN @ ELSE @ + 1,
              !.err = IF err = "" THEN @ ELSE "push failed",
              !.n = @ + 1]

\* One pass of the push loop after PutLDAPIdentitySource returned err.
pushStep(r, source, err) ==
    [r EXCEPT !.attempted = Append(@, source.ID),
              !.console = Append(@, [id |-> source.ID, ok |-> err = ""]),
              !.successCount = IF err = "" THEN @ + 1 ELSE @,
              !.errorCount = IF err = "" THEN @ ELSE @ + 1,
              !.n = @ + 1]

PutOne ==
    /\ run.pc = "push"
    /\ run.n <= Len(run.sources)
    /\ \E outcome \in Outcomes :
         /\ nsx' = doRequest(nsx, "PUT", run.sources[run.n], outcome)
         /\ run' = pushStep(run, run.sources[run.n], errorOf(outcome))
    /\ UNCHANGED <<heap, callerVars, calls, apiVars>>

\* The loop is over: the totals are logged and the command returns nil.
Finish ==
    /\ run.pc = "push"
    /\ run.n > Len(run.sources)
    /\ run' = [run EXCEPT !.pc = "done"]
    /\ UNCHANGED <<heap, callerVars, calls, apiVars, nsx>>

\* Execute: the process's exit code for the error the command returned.
Execute(err) == IF err = "" THEN 0 ELSE 1

NextSync == Pull \/ LoadAndMerge \/ SaveOutput \/ LoadInitial \/ PutOne \/ Finish

SpecSync == InitSync /\ [][NextSync]_vars

(* --------------------- encoding/json on the models --------------------- *)

\* json.Marshal of an LDAPServer: the omitempty fields are left out when
\* empty.
marshalServer(server) ==
    LET keys == {"url", "starttls", "enabled"}
                \cup (IF server.BindUsername # "" THEN {"bind_username"} ELSE {})
                \cup (IF server.BindPassword # "" THEN {"bind_password"} ELSE {})
                \cup (IF server.Certificates # << >> THEN {"certificates"} ELSE {})
    IN  [k \in keys |->
            CASE k = "url" -> <<server.URL>>
              [] k = "starttls" -> <<server.StartTLS>>
              [] k = "enabled" -> <<server.Enabled>>
              [] k = "bind_username" -> <<server.BindUsername>>
              [] k = "bind_password" -> <<server.BindPassword>>
              [] k = "certificates" -> server.Certificates]

\* json.Unmarshal into an LDAPServer: a missing field is the zero value.
unmarshalServer(object) ==
    LET text(k) == IF k \in DOMAIN object THEN object[k][1] ELSE ""
    IN  LDAPServer(text("url"), text("starttls"), text("enabled"),
                   text("bind_username"), text("bind_password"),
                   IF "certificates" \in DOMAIN object
                   THEN object["certificates"] ELSE << >>)

marshalDomains(list) ==
    [i \in 1..Len(list) |->
        [id |-> list[i].ID, domain_name |-> list[i].DomainName,
         base_dn |-> list[i].BaseDN,
         alternative_domain_names |-> list[i].AlternativeDomainNames,
         ldap_servers |-> [j \in 1..Len(list[i].LDAPServers) |->
                             marshalServer(list[i].LDAPServers[j])]]]

unmarshalDomains(array) ==
    [i \in 1..Len(array) |->
        Domain(array[i].id, array[i].domain_name, array[i].base_dn,
               array[i].alternative_domain_names,
               [j \in 1..Len(array[i].ldap_servers) |->
                   unmarshalServer(array[i].ldap_servers[j])])]

marshalResponse(resp) ==
    [results |-> [k \in 1..Len(resp.Results) |->
                    [json |-> [pem_encoded |-> resp.Results[k].JSON.PEMEncoded],
                     item |-> [url |-> resp.Results[k].Item.URL]]]]

unmarshalResponse(object) ==
    [Results |-> [k \in 1..Len(object.results) |->
                    CertificateResult(object.results[k].item.url,
                                      object.results[k].json.pem_encoded)]]

(* ------------------------ repository: history -------------------------- *)

\* LIMIT 100 of ListHistory's query.
ListLimit == 100

\* The database after migrate(): both tables empty. present is s.repo != nil.
NewRepository(present) ==
    [present |-> present, history |-> << >>, nextHistoryID |-> 1,
     configs |-> << >>, nextConfigID |-> 1]

\* A row of history as a models.HistoryEntry.
historyEntry(row) ==
    [ID |-> row.id, Initial |-> unmarshalDomains(row.initial),
     Response |-> unmarshalResponse(row.response),
     Result |-> unmarshalDomains(row.result)]

\* GetHistory: err is "" for nil; entries holds the entry, if any.
GetHistory(rp, id, db) ==
    LET rows == SelectSeq(rp.history, LAMBDA row : row.id = id)
    IN  IF db # "ok" \/ rows = << >>
        THEN [err |-> "no rows", entries |-> << >>]
        ELSE [err |-> "", entries |-> <<historyEntry(rows[1])>>]

\* What the database does with a call that writes and then reads back: all
\* of it, nothing, or the write without the read.
DBOutcomes == {"ok", "write failed", "read failed"}

\* SaveHistory that stores the initial domains as the result.
SaveHistoryInitialAsResult(rp, first, resp, merge, db) ==
    IF db = "write failed"
    THEN [repo |-> rp, err |-> "failed to insert history", entries |-> << >>]
    ELSE LET row   == [id |-> rp.nextHistoryID,
                       initial |-> marshalDomains(first),
                       response |-> marshalResponse(resp),
                       result |-> marshalDomains(first)]
             after == [rp EXCEPT !.history = Append(@, row),
                                 !.nextHistoryID = @ + 1]
             back  == GetHistory(after, row.id,
                                 IF db = "read failed" THEN "failed" ELSE "ok")
         IN  [repo |-> after, err |-> back.err, entries |-> back.entries]

\* SaveHistory: the INSERT, then GetHistory of the new id.
SaveHistory(rp, first, resp, merge, db) ==
    IF db = "write failed"
    THEN [repo |-> rp, err |-> "failed to insert history", entries |-> << >>]
    ELSE LET row   == [id |-> rp.nextHistoryID,
                       initial |-> marshalDomains(first),
                       response |-> marshalResponse(resp),
                       result |-> marshalDomains(merge)]
             after == [rp EXCEPT !.history = Append(@, row),
                                 !.nextHistoryID = @ + 1]
             back  == GetHistory(after, row.id,
                                 IF db = "read failed" THEN "failed" ELSE "ok")
         IN  [repo |-> after, err |-> back.err, entries |-> back.entries]

\* ListHistory: the newest rows first, a hundred at most. Rows stored in the
\* same second have equal created_at; they are taken newest id first.
ListHistory(rp, db) ==
    LET n == Len(rp.history)
        m == IF n < ListLimit THEN n ELSE ListLimit
    IN  IF db # "ok" THEN [err |-> "query failed", entries |-> << >>]
        ELSE [err |-> "",
              entries |-> [k \in 1..m |-> historyEntry(rp.history[n - k + 1])]]

(* ------------------------ api: merge and history ----------------------- *)

\* handleMerge that answers 500 when the history could not be saved.
handleMergeStrict(rp, body, db) ==
    LET merge == MergeAlone(body)
        saved == IF rp.present
                 THEN SaveHistory(rp, body.initial, body.response, merge, db)
                 ELSE [repo |-> rp, err |-> "", entries |-> << >>]
    IN  [repo  |-> saved.repo,
         reply |-> [op |-> "merge",
                    status |-> IF saved.err = "" THEN 200 ELSE 500,
                    body |-> IF saved.err = "" THEN merge ELSE << >>,
                    request |-> body,
                    audit |-> IF rp.present THEN db ELSE "no repository"]]

\* POST /api/merge
handleMerge(rp, body, db) ==
    LET merge == MergeAlone(body)
        saved == IF rp.present
                 THEN SaveHistory(rp, body.initial, body.response, merge, db)
                 ELSE [repo |-> rp, err |-> "", entries |-> << >>]
    IN  [repo  |-> saved.repo,
         reply |-> [op |-> "merge", status |-> 200, body |-> merge,
                    request |-> body,
                    audit |-> IF rp.present THEN db ELSE "no repository"]]

\* GET /api/history
handleListHistory(rp, db) ==
    LET listed == IF rp.present THEN ListHistory(rp, db)
                  ELSE [err |-> "", entries |-> << >>]
    IN  [repo  |-> rp,
         reply |-> IF listed.err # ""
                   THEN [op |-> "listHistory", status |-> 500, body |-> << >>]
                   ELSE [op |-> "listHistory", status |-> 200,
                         body |-> listed.entries]]

\* GET /api/history/{id}
handleGetHistory(rp, id, db) ==
    LET got == IF rp.present THEN GetHistory(rp, id, db)
               ELSE [err |-> "history not available", entries |-> << >>]
    IN  [repo  |-> rp,
         reply |-> IF got.err # ""
                   THEN [op |-> "getHistory", status |-> 404, body |-> << >>,
                         id |-> id]
                   ELSE [op |-> "getHistory", status |-> 200,
                         body |-> got.entries, id |-> id]]

\* The merges one server run takes.
MaxHistory == 2

\* A server with or without a repository, nothing stored yet.
InitMergeAPI ==
    /\ CallerIdle
    /\ heap = EmptyHeap
    /\ calls = << >>
    /\ SyncIdle
    /\ \E present \in BOOLEAN : repo = NewRepository(present)
    /\ reply = [op |-> "none", status |-> 0, body |-> << >>]

PostMerge ==
    /\ Len(repo.history) < MaxHistory
    /\ \E b \in 1..Len(Requests), db \in DBOutcomes :
         \E h \in {handleMerge(repo, Requests[b], db)} :
           repo' = h.repo /\ reply' = h.reply
    /\ UNCHANGED <<heap, callerVars, calls, syncVars>>

GetHistoryList ==
    /\ \E db \in {"ok", "failed"} :
         \E h \in {handleListHistory(repo, db)} :
           repo' = h.repo /\ reply' = h.reply
    /\ UNCHANGED <<heap, callerVars, calls, syncVars>>

GetHistoryEntry ==
    /\ \E id \in 1..MaxHistory, db \in {"ok", "failed"} :
         \E h \in {handleGetHistory(repo, id, db)} :
           repo' = h.repo /\ reply' = h.reply
    /\ UNCHANGED <<heap, callerVars, calls, syncVars>>

NextMergeAPI == PostMerge \/ GetHistoryList \/ GetHistoryEntry

SpecMergeAPI == InitMergeAPI /\ [][NextMergeAPI]_vars

(* ---------------- api: a long run of merges and the list --------------- *)

\* The merges a long-running server takes: past the list's limit.
MaxMerges == 101

\* A server with a repository, nothing stored yet.
InitHistoryList ==
    /\ CallerIdle
    /\ heap = EmptyHeap
    /\ calls = << >>
    /\ SyncIdle
    /\ repo = NewRepository(TRUE)
    /\ reply = [op |-> "none", status |-> 0, body |-> << >>]

\* POST /api/merge that succeeds, audit included.
PostMergeSaved ==
    /\ Len(repo.history) < MaxMerges
    /\ \E h \in {handleMerge(repo, Requests[3], "ok")} :
         repo' = h.repo /\ reply' = h.reply
    /\ UNCHANGED <<heap, callerVars, calls, syncVars>>

NextHistoryList == PostMergeSaved \/ GetHistoryList

SpecHistoryList == InitHistoryList /\ [][NextHistoryList]_vars

(* ---------------------- repository: nsx_configs ------------------------ *)

NSXConfig(id, name, description, host, username, password, insecure) ==
    [ID |-> id, Name |-> name, Description |-> description, Host |-> host,
     Username |-> username, Password |-> password, Insecure |-> insecure]

\* The names configs are given, in the order ORDER BY name puts them.
ConfigNames == <<"lab", "prod", "stage">>

\* GetConfig: the row of that id with all its columns, password included.
GetConfig(rp, id, db) ==
    LET rows == SelectSeq(rp.configs, LAMBDA row : row.ID = id)
    IN  IF db # "ok" \/ rows = << >>
        THEN [err |-> "no rows", configs |-> << >>]
        ELSE [err |-> "", configs |-> <<rows[1]>>]

\* nameTaken without the UNIQUE constraint on name.
nameTakenNever(rp, config) == FALSE

\* The UNIQUE constraint on name: the statement writes a row (the INSERT
\* always, the UPDATE when a row has that id) and another row has this name.
nameTaken(rp, config) ==
    /\ config.ID = 0 \/ \E k \in 1..Len(rp.configs) : rp.configs[k].ID = config.ID
    /\ \E k \in 1..Len(rp.configs) :
          rp.configs[k].Name = config.Name /\ rp.configs[k].ID # config.ID

\* SaveConfig: INSERT when the ID is 0, else UPDATE ... WHERE id = ID; then
\* GetConfig.
SaveConfig(rp, config, db) ==
    IF db = "write failed" \/ nameTaken(rp, config)
    THEN [repo |-> rp, err |-> "failed to save", configs |-> << >>]
    ELSE LET id    == IF config.ID = 0 THEN rp.nextConfigID ELSE config.ID
             after == IF config.ID = 0
                      THEN [rp EXCEPT !.configs = Append(@, [config EXCEPT !.ID = id]),
                                      !.nextConfigID = @ + 1]
                      ELSE [rp EXCEPT !.configs =
                              [k \in 1..Len(rp.configs) |->
                                 IF rp.configs[k].ID = id THEN config
                                 ELSE rp.configs[k]]]
             back  == GetConfig(after, id,
                                IF db = "read failed" THEN "failed" ELSE "ok")
         IN  [repo |-> after, err |-> back.err, configs |-> back.configs]

\* ListConfigs: every row without its password column, by name.
RECURSIVE byName(_, _)
byName(rows, names) ==
    IF names = << >> THEN << >>
    ELSE SelectSeq(rows, LAMBDA row : row.Name = Head(names))
         \o byName(rows, Tail(names))

ListConfigs(rp, db) ==
    LET rows == byName(rp.configs, ConfigNames)
    IN  IF db # "ok" THEN [err |-> "query failed", configs |-> << >>]
        ELSE [err |-> "",
              configs |-> [k \in 1..Len(rows) |-> [rows[k] EXCEPT !.Password = ""]]]

\* DeleteConfig: sql.ErrNoRows when no row had that id.
DeleteConfig(rp, id, db) ==
    IF db # "ok" THEN [repo |-> rp, err |-> "exec failed"]
    ELSE IF \A k \in 1..Len(rp.configs) : rp.configs[k].ID # id
         THEN [repo |-> rp, err |-> "no rows"]
         ELSE [repo |-> [rp EXCEPT !.configs =
                           SelectSeq(@, LAMBDA row : row.ID # id)],
               err  |-> ""]

(* ---------------------------- api: configs ----------------------------- *)

\* GET /api/configs
handleListConfigs(rp, db) ==
    LET listed == IF rp.present THEN ListConfigs(rp, db)
                  ELSE [err |-> "", configs |-> << >>]
    IN  [repo  |-> rp,
         reply |-> [op |-> "listConfigs",
                    status |-> IF listed.err = "" THEN 200 ELSE 500,
                    body |-> listed.configs]]

\* POST /api/configs
handleCreateConfig(rp, body, db) ==
    LET saved == IF rp.present THEN SaveConfig(rp, body, db)
                 ELSE [repo |-> rp, err |-> "database not available",
                       configs |-> << >>]
    IN  [repo  |-> saved.repo,
         reply |-> [op |-> "createConfig",
                    status |-> IF saved.err = "" THEN 201 ELSE 500,
                    body |-> saved.configs,
                    request |-> body, db |-> db]]

\* GET /api/configs/{id}
handleGetConfig(rp, id, db) ==
    LET got == IF rp.present THEN GetConfig(rp, id, db)
               ELSE [err |-> "config not available", configs |-> << >>]
    IN  [repo  |-> rp,
         reply |-> [op |-> "getConfig",
                    status |-> IF got.err = "" THEN 200 ELSE 404,
                    body |-> got.configs]]

\* DELETE /api/configs/{id}
handleDeleteConfig(rp, id, db) ==
    LET gone == IF rp.present THEN DeleteConfig(rp, id, db)
                ELSE [repo |-> rp, err |-> "database not available"]
    IN  [repo  |-> gone.repo,
         reply |-> [op |-> "deleteConfig",
                    status |-> IF gone.err = "" THEN 204
                               ELSE IF rp.present THEN 404 ELSE 500,
                    body |-> << >>,
                    request |-> id, db |-> db]]

\* The rows one server run inserts.
MaxConfigs == 2

\* Request bodies of POST /api/configs: with and without a password, one
\* that carries an id, one whose name is taken when the first is stored, and
\* one that carries the second id and the first one's name.
ConfigBodies ==
    {NSXConfig(0, "prod", "Production NSX Manager", "https://nsx.example.com",
               "admin", "secret", FALSE),
     NSXConfig(0, "lab", "", "https://lab.example.com", "admin", "", TRUE),
     NSXConfig(1, "stage", "", "https://stage.example.com", "root", "hunter2", FALSE),
     NSXConfig(0, "prod", "", "https://other.example.com", "admin", "", FALSE),
     NSXConfig(2, "prod", "", "https://third.example.com", "admin", "", FALSE)}

InitConfigAPI ==
    /\ CallerIdle
    /\ heap = EmptyHeap
    /\ calls = << >>
    /\ SyncIdle
    /\ \E present \in BOOLEAN : repo = NewRepository(present)
    /\ reply = [op |-> "none", status |-> 0, body |-> << >>]

PostConfig ==
    /\ \E body \in ConfigBodies, db \in DBOutcomes :
         /\ body.ID = 0 => repo.nextConfigID <= MaxConfigs
         /\ \E h \in {handleCreateConfig(repo, body, db)} :
              repo' = h.repo /\ reply' = h.reply
    /\ UNCHANGED <<heap, callerVars, calls, syncVars>>

GetConfigList ==
    /\ \E db \in {"ok", "failed"} :
         \E h \in {handleListConfigs(repo, db)} :
           repo' = h.repo /\ reply' = h.reply
    /\ UNCHANGED <<heap, callerVars, calls, syncVars>>

GetConfigEntry ==
    /\ \E id \in 1..MaxConfigs, db \in {"ok", "failed"} :
         \E h \in {handleGetConfig(repo, id, db)} :
           repo' = h.repo /\ reply' = h.reply
    /\ UNCHANGED <<heap, callerVars, calls, syncVars>>

DeleteConfigEntry ==
    /\ \E id \in 1..MaxConfigs, db \in {"ok", "failed"} :
         \E h \in {handleDeleteConfig(repo, id, db)} :
           repo' = h.repo /\ reply' = h.reply
    /\ UNCHANGED <<heap, callerVars, calls, syncVars>>

NextConfigAPI == PostConfig \/ GetConfigList \/ GetConfigEntry \/ DeleteConfigEntry

SpecConfigAPI == InitConfigAPI /\ [][NextConfigAPI]_vars

(* ------------------------------ the claims ----------------------------- *)

Range(list) == {list[k] : k \in 1..Len(list)}

\* The first call has returned and the caller has not written to its result.
Returned == pc \in {"merged", "remerged"}

\* What the first call returned, and the results it was given.
Output == merged

Results == received.Results

\* The positions <<i, j>> of the servers of a domain list.
Servers(list) == {p \in (1..Len(list)) \X (1..MaxServers) :
                    p[2] <= Len(list[p[1]].LDAPServers)}

ServerAt(list, p) == list[p[1]].LDAPServers[p[2]]

\* The non-empty PEMs of the results that carry `url`, in response order.
RECURSIVE PEMsFor(_, _)
PEMsFor(results, url) ==
    IF results = << >> THEN << >>
    ELSE LET r == Head(results)
         IN  (IF r.Item.URL = url /\ r.JSON.PEMEncoded # ""
              THEN <<r.JSON.PEMEncoded>> ELSE << >>)
             \o PEMsFor(Tail(results), url)

\* C1 as stated: for every output server S and every result M that has a PEM,
\* M's PEM appears in S.certificates if and only if S.url equals M's item
\* URL.
C1_AttachedIffSameURL ==
    Returned =>
        \A p \in Servers(Output) : \A k \in 1..Len(Results) :
            Results[k].JSON.PEMEncoded # "" =>
              ((Results[k].JSON.PEMEncoded \in Range(ServerAt(Output, p).Certificates))
                  <=> (ServerAt(Output, p).URL = Results[k].Item.URL))

\* C1 amended: for every output server S, every result M whose item URL and
\* PEM are both non-empty and whose URL equals S.url has its PEM in
\* S.certificates, and every entry of S.certificates is the PEM of a result
\* whose item URL equals S.url byte for byte (a URL that differs in case, a
\* trailing character or a port contributes nothing).
C1_AttachedByExactURL ==
    Returned =>
        \A p \in Servers(Output) :
            LET S == ServerAt(Output, p)
            IN  /\ \A k \in 1..Len(Results) :
                     (/\ Results[k].Item.URL # ""
                      /\ Results[k].JSON.PEMEncoded # ""
                      /\ Results[k].Item.URL = S.URL)
                        => Results[k].JSON.PEMEncoded \in Range(S.Certificates)
                /\ \A c \in Range(S.Certificates) :
                     \E k \in 1..Len(Results) :
                        /\ Results[k].Item.URL = S.URL
                        /\ Results[k].JSON.PEMEncoded = c

\* A server got the certificate of its own URL and not the one the response
\* holds for a near miss of that URL, and a server whose URL differs in case
\* from the matched one got nothing.
C1_Witness ==
    /\ Returned
    /\ \E k \in 1..Len(Results) :
          Results[k].Item.URL \in {URL_A_SLASH, URL_A_NOPORT}
    /\ \E p, q \in Servers(Output) :
          /\ ServerAt(Output, p).URL = URL_A
          /\ ServerAt(Output, p).Certificates # << >>
          /\ ServerAt(Output, q).URL = URL_A_UPPER
          /\ ServerAt(Output, q).Certificates = << >>

\* C2: a server that came with certificates and whose url no result of the
\* response carries has no certificates in the output, and no certificate of
\* the input is carried over next to the matched ones.
C2_ClearsOnNoMatch ==
    Returned =>
        \A p \in Servers(initial) :
            LET before == ServerAt(initial, p)
                after  == ServerAt(Output, p)
            IN  /\ (/\ before.Certificates # << >>
                    /\ \A k \in 1..Len(Results) : Results[k].Item.URL # before.URL)
                      => after.Certificates = << >>
                /\ \A c \in Range(before.Certificates) :
                      c \in Range(after.Certificates)
                        => c \in Range(PEMsFor(Results, before.URL))

\* A server with a url and certificates of its own, no result of a non-empty
\* response carrying its url: it is cleared.
C2_Witness ==
    /\ Returned
    /\ \E p \in Servers(initial) :
          /\ ServerAt(initial, p).Certificates # << >>
          /\ ServerAt(initial, p).URL # ""
          /\ \A k \in 1..Len(Results) :
                Results[k].Item.URL # ServerAt(initial, p).URL
          /\ ServerAt(Output, p).Certificates = << >>
          /\ Results # << >>

\* C3 as stated: for every url, the certificates of an output server with
\* that url are the non-empty PEMs of the results with that url, in order.
C3_CertificatesInInputOrder ==
    Returned =>
        \A p \in Servers(Output) :
            ServerAt(Output, p).Certificates
                = PEMsFor(Results, ServerAt(Output, p).URL)

\* C3 amended: the same for every non-empty url.
C3_CertificatesInInputOrderNonEmptyURL ==
    Returned =>
        \A p \in Servers(Output) :
            ServerAt(Output, p).URL # ""
                => ServerAt(Output, p).Certificates
                     = PEMsFor(Results, ServerAt(Output, p).URL)

\* Results A then B for one url gave [A, B].
C3_Witness ==
    /\ Returned
    /\ \E p \in Servers(Output) :
          /\ ServerAt(Output, p).URL = URL_A
          /\ ServerAt(Output, p).Certificates = <<"A", "B">>
    /\ Results[1].JSON.PEMEncoded = "A"

\* C4: no certificates list of the output holds the empty string, and a
\* server whose matching results all have an empty PEM has no certificates.
C4_NoEmptyCertificate ==
    Returned =>
        \A p \in Servers(Output) :
            LET S == ServerAt(Output, p)
            IN  /\ "" \notin Range(S.Certificates)
                /\ (\A k \in 1..Len(Results) :
                       Results[k].Item.URL = S.URL => Results[k].JSON.PEMEncoded = "")
                     => S.Certificates = << >>

\* A server whose url has a result, all of them with an empty PEM.
C4_Witness ==
    /\ Returned
    /\ \E p \in Servers(Output) :
          /\ \E k \in 1..Len(Results) :
                /\ Results[k].Item.URL = ServerAt(Output, p).URL
                /\ Results[k].Item.URL # ""
          /\ \A k \in 1..Len(Results) :
                Results[k].Item.URL = ServerAt(Output, p).URL
                    => Results[k].JSON.PEMEncoded = ""
          /\ ServerAt(Output, p).Certificates = << >>

\* C5: the result merged again with the same response is the result.
C5_RemergeIdempotent ==
    pc = "remerged" => DomainsValue(heap, result2) = DomainsValue(heap, result)

\* A second merge of a result that differs from the input and holds
\* certificates.
C5_Witness ==
    /\ pc = "remerged"
    /\ merged # initial
    /\ \E p \in Servers(DomainsValue(heap, result2)) :
          ServerAt(DomainsValue(heap, result2), p).Certificates # << >>

\* C6: the output has the input's domains, in order, each with the input's
\* servers, in order.
C6_StructurePreserved ==
    Returned =>
        /\ Len(Output) = Len(initial)
        /\ \A i \in 1..Len(initial) :
              /\ Output[i].ID = initial[i].ID
              /\ Len(Output[i].LDAPServers) = Len(initial[i].LDAPServers)
              /\ \A j \in 1..Len(initial[i].LDAPServers) :
                    Output[i].LDAPServers[j].URL = initial[i].LDAPServers[j].URL

\* Two domains, one of them without servers and one with two different ones.
C6_Witness ==
    /\ Returned
    /\ Len(Output) = 2
    /\ \E i, e \in 1..2 :
          /\ Len(Output[e].LDAPServers) = 0
          /\ Len(Output[i].LDAPServers) = 2
          /\ Output[i].LDAPServers[1].URL # Output[i].LDAPServers[2].URL

\* C7: every field of every domain and server but certificates is the
\* input's.
C7_PassengerFieldsVerbatim ==
    Returned =>
        /\ Len(Output) = Len(initial)
        /\ \A i \in 1..Len(initial) :
              /\ Output[i].ID = initial[i].ID
              /\ Output[i].DomainName = initial[i].DomainName
              /\ Output[i].BaseDN = initial[i].BaseDN
              /\ Output[i].AlternativeDomainNames = initial[i].AlternativeDomainNames
              /\ Len(Output[i].LDAPServers) = Len(initial[i].LDAPServers)
              /\ \A j \in 1..Len(initial[i].LDAPServers) :
                    [Output[i].LDAPServers[j] EXCEPT !.Certificates = << >>]
                        = [initial[i].LDAPServers[j] EXCEPT !.Certificates = << >>]

\* A domain with alternative names and a server with credentials and a
\* string boolean in an unusual spelling, whose certificates did change.
C7_Witness ==
    /\ Returned
    /\ \E i \in 1..Len(Output) :
          /\ Output[i].AlternativeDomainNames # << >>
          /\ \E j \in 1..Len(Output[i].LDAPServers) :
                /\ Output[i].LDAPServers[j].StartTLS = "True"
                /\ Output[i].LDAPServers[j].BindPassword # ""
                /\ Output[i].LDAPServers[j].Certificates
                     # initial[i].LDAPServers[j].Certificates

\* The backing arrays of a domain list: the array of domains and the arrays
\* of servers.
DomainArrays(domainList) == IF domainList.len = 0 THEN {} ELSE {domainList.arr}

ServerArrays(h, domainList) ==
    {d.LDAPServers.arr : d \in {e \in Range(elems(h.dom, domainList)) :
                                   e.LDAPServers.len > 0}}

\* C8: whatever was called, the domain list and the response passed to the
\* first call are as they were before it, the list passed to the second
\* call is as it was returned by the first, and the result shares no array
\* of domains or servers with the input.
C8_InputsNotMutated ==
    /\ DomainsValue(heap, domains) = initial
    /\ ResponseValue(heap, response) = received
    /\ pc = "remerged" => DomainsValue(heap, result) = merged
    /\ pc # "start" =>
          /\ DomainArrays(result) \cap DomainArrays(domains) = {}
          /\ ServerArrays(heap, result) \cap ServerArrays(heap, domains) = {}

\* Two calls were made, and the first one's result differs from its input,
\* which came with certificates.
C8_Witness ==
    /\ pc = "remerged"
    /\ \E p \in Servers(initial) :
          /\ ServerAt(initial, p).Certificates # << >>
          /\ ServerAt(merged, p).Certificates # << >>
          /\ ServerAt(merged, p).Certificates # ServerAt(initial, p).Certificates

\* C9: after the caller has changed one certificate of one output server in
\* place, the index's lists and the certificates of every other output
\* server are what they were.
C9_CertificatesNotAliased ==
    pc = "changed" =>
        /\ IndexValue(heap, certMap) = index
        /\ \A p \in Servers(merged) :
              p # <<changed[1], changed[2]>>
                => ServerAt(DomainsValue(heap, result), p).Certificates
                     = ServerAt(merged, p).Certificates

\* C10: Merge returns a list for every domain list and every response; no
\* domains in, no domains out; and with no results, the output is the input
\* with every server's certificates empty.
Cleared(list) ==
    [i \in 1..Len(list) |->
        [list[i] EXCEPT !.LDAPServers =
            [j \in 1..Len(list[i].LDAPServers) |->
                [list[i].LDAPServers[j] EXCEPT !.Certificates = << >>]]]]

C10_MergeTotal ==
    /\ pc = "start" => Merge(heap, domains, response).result.len = domains.len
    /\ Returned =>
          /\ initial = << >> => Output = << >>
          /\ Results = << >> => Output = Cleared(initial)

\* An empty response against servers that came with certificates.
C10_Witness ==
    /\ Returned
    /\ Results = << >>
    /\ \E p \in Servers(initial) : ServerAt(initial, p).Certificates # << >>
    /\ Output = Cleared(initial)

\* C11: a result with an empty item url is ignored entirely: what Merge returns
\* for a response equals, domain by domain and field by field, what it returns
\* for the same domains and the response without its empty-url results, also
\* when a server's own url is empty; both calls return a full result.
C11_EmptyURLResultsIgnored ==
    pc = "stripped" =>
        /\ DomainsValue(heap, result) = DomainsValue(heap, result2)
        /\ merged = DomainsValue(heap, result2)
        /\ Len(merged) = Len(initial)

\* A response with an empty-url result that has a PEM, and a server whose url
\* is empty, merged both ways.
C11_Witness ==
    /\ pc = "stripped"
    /\ \E k \in 1..Len(Results) :
         Results[k].Item.URL = "" /\ Results[k].JSON.PEMEncoded # ""
    /\ Len(WithoutEmptyURL(Results)) < Len(Results)
    /\ \E p \in Servers(initial) : ServerAt(initial, p).URL = ""
    /\ \E p \in Servers(merged) : ServerAt(merged, p).Certificates # << >>

\* C12: Merge is safe under concurrent invocation on the one shared Merger:
\* under every interleaving of the calls' steps each call returns the domains
\* it returns when it runs alone, and what it returned stays so while the
\* other calls run on.
C12_ConcurrentCallsIndependent ==
    \A c \in DOMAIN calls :
        calls[c].pc = "done" =>
            /\ calls[c].out = MergeAlone(calls[c].body)
            /\ DomainsValue(heap, calls[c].result) = calls[c].out

\* Two calls done whose steps interleaved (one's second domain was merged
\* after the other's first), with different certificates for one url.
C12_Witness ==
    \E a, b \in DOMAIN calls :
        /\ a # b
        /\ calls[a].pc = "done" /\ calls[b].pc = "done"
        /\ Len(calls[a].out) = 2 /\ Len(calls[b].out) >= 1
        /\ calls[a].out[1].LDAPServers[1].Certificates
             # calls[b].out[1].LDAPServers[1].Certificates
        /\ calls[a].out[1].LDAPServers[1].URL = calls[b].out[1].LDAPServers[1].URL
        /\ heap.dom[calls[a].result.arr][1].LDAPServers.arr
             < heap.dom[calls[b].result.arr][1].LDAPServers.arr
        /\ heap.dom[calls[b].result.arr][1].LDAPServers.arr
             < heap.dom[calls[a].result.arr][2].LDAPServers.arr

\* The run ended before step 3: the pull, a load or the output file failed.
FailedBeforePush(r) ==
    r.err \in {"pull failed", "failed to load response file",
               "failed to save output", "failed to load file"}

\* C13: a push of a batch (step 3 of sync, and nsx push) does not stop at a
\* failed PUT: while it runs, the domains attempted so far are the first ones
\* of the batch in list order, each with one reported outcome, and the two
\* counters add up to their number; when it is over that number is the size
\* of the batch, whichever PUTs failed.
C13_PushAttemptsEveryDomain ==
    (DOMAIN run # {} /\ run.pc \in {"push", "done"} /\ ~run.dryRun
       /\ ~FailedBeforePush(run)) =>
        LET ids == [k \in 1..Len(run.sources) |-> run.sources[k].ID]
            m   == run.n - 1
        IN  /\ m <= Len(ids)
            /\ run.attempted = SubSeq(ids, 1, m)
            /\ [k \in 1..Len(run.console) |-> run.console[k].id] = run.attempted
            /\ run.successCount =
                 Cardinality({k \in 1..Len(run.console) : run.console[k].ok})
            /\ run.errorCount =
                 Cardinality({k \in 1..Len(run.console) : ~run.console[k].ok})
            /\ run.successCount + run.errorCount = m
            /\ run.pc = "done" => m = Len(ids)
            /\ Len(run.sources) =
                 Len(IF run.cmd = "sync" THEN run.merged ELSE run.initialFile.content)

\* A batch of two whose first PUT failed and whose second went through.
C13_Witness ==
    /\ DOMAIN run # {}
    /\ run.pc = "done" /\ run.err = ""
    /\ Len(run.sources) = 2
    /\ run.console = <<[id |-> run.sources[1].ID, ok |-> FALSE],
                       [id |-> run.sources[2].ID, ok |-> TRUE]>>
    /\ run.errorCount = 1 /\ run.successCount = 1

\* The PUT requests NSX Manager received.
PutsReceived == {k \in 1..Len(nsx.requests) : nsx.requests[k].method = "PUT"}

\* C19: sync --dry-run pulls and merges but does not push: no PUT is attempted
\* or received and NSX Manager holds the sources it held before; a dry-run that
\* ends without error has pulled and merged, and has written the merged
\* domains to the file asked for with -o.
C19_DryRunSkipsPush ==
    (DOMAIN run # {} /\ run.cmd = "sync" /\ run.dryRun) =>
        /\ run.attempted = << >>
        /\ PutsReceived = {}
        /\ nsx.sources = nsx.seeded
        /\ run.pc # "push"
        /\ (run.pc = "done" /\ run.err = "") =>
              /\ nsx.requests = <<[method |-> "GET", id |-> "", answer |-> "ok"]>>
              /\ run.initial = LDAPIdentitySourcesToDomains(nsx.seeded)
              /\ run.merged = MergeAlone([initial  |-> run.initial,
                                          response |-> run.responseFile.content])
              /\ run.output => run.file = [written |-> TRUE, content |-> run.merged]

\* A dry-run with -o that ended well: certificates merged and written to the
\* file, NSX Manager holding sources.
C19_Witness ==
    /\ DOMAIN run # {}
    /\ run.cmd = "sync" /\ run.dryRun /\ run.output
    /\ run.pc = "done" /\ run.err = ""
    /\ nsx.seeded # << >>
    /\ run.file.written
    /\ \E p \in Servers(run.file.content) :
         ServerAt(run.file.content, p).Certificates = <<"A", "B">>

\* C20: sync runs PULL, MERGE, PUSH in this order: a PUT is attempted only
\* after the pull was answered, the response file was loaded and merged and
\* the output file asked for was written; when the pull, the loading of the
\* response or the writing of the output file fails, sync has returned that
\* error and no PUT was attempted or received.
C20_PullMergePushInSequence ==
    (DOMAIN run # {} /\ run.cmd = "sync") =>
        /\ (run.attempted # << >> \/ PutsReceived # {} \/ run.pc = "push") =>
              /\ Len(nsx.requests) >= 1
              /\ nsx.requests[1] = [method |-> "GET", id |-> "", answer |-> "ok"]
              /\ run.initial = LDAPIdentitySourcesToDomains(nsx.seeded)
              /\ run.responseFile.readable
              /\ run.merged = MergeAlone([initial  |-> run.initial,
                                          response |-> run.responseFile.content])
              /\ run.sources = DomainsToLDAPIdentitySources(run.merged)
              /\ run.output => run.file = [written |-> TRUE, content |-> run.merged]
              /\ run.err = ""
        /\ FailedBeforePush(run) =>
              /\ run.pc = "done"
              /\ run.attempted = << >>
              /\ PutsReceived = {}
        /\ (run.pc = "done" /\ run.err = "") =>
              /\ Len(nsx.requests) >= 1 /\ nsx.requests[1].answer = "ok"
              /\ run.responseFile.readable
              /\ run.output => run.file.written

\* A full run with -o: the pull, then the file, then a PUT NSX Manager
\* accepted.
C20_Witness ==
    /\ DOMAIN run # {}
    /\ run.cmd = "sync" /\ ~run.dryRun /\ run.output
    /\ run.pc = "done" /\ run.err = ""
    /\ run.file.written
    /\ Len(nsx.requests) = 3
    /\ nsx.requests[1].method = "GET"
    /\ nsx.requests[2].method = "PUT" /\ nsx.requests[2].answer = "ok"
    /\ nsx.requests[3].method = "PUT" /\ nsx.requests[3].answer = "rejected"
    /\ nsx.sources # nsx.seeded

\* C14: a failed audit write does not block the merge result: POST /api/merge
\* answers 200 with the merged domains of its request whether SaveHistory
\* succeeded, failed or there is no repository, so the body is the same in
\* the three cases.
C14_MergeAnswersWhateverTheAudit ==
    (DOMAIN reply # {} /\ reply.op = "merge") =>
        /\ reply.status = 200
        /\ reply.body = MergeAlone(reply.request)
        /\ Len(reply.body) = Len(reply.request.initial)

\* A merge answered with certificates although the INSERT failed.
C14_Witness ==
    /\ DOMAIN reply # {}
    /\ reply.op = "merge"
    /\ reply.audit = "write failed"
    /\ repo.history = << >>
    /\ reply.status = 200
    /\ \E p \in Servers(reply.body) : ServerAt(reply.body, p).Certificates # << >>

\* The entry the step's merge stored: the last row, read back by its id.
MergeRecorded ==
    (reply'.op = "merge" /\ reply'.audit = "ok") =>
        /\ Len(repo'.history) = Len(repo.history) + 1
        /\ SubSeq(repo'.history, 1, Len(repo.history)) = repo.history
        /\ LET row == repo'.history[Len(repo'.history)]
               got == GetHistory(repo', row.id, "ok")
           IN  /\ \A k \in 1..Len(repo.history) : repo.history[k].id # row.id
               /\ got.err = ""
               /\ got.entries[1].ID = row.id
               /\ got.entries[1].Initial = reply'.request.initial
               /\ got.entries[1].Response = reply'.request.response
               /\ got.entries[1].Result = reply'.body

\* Every entry stored before the step reads back the same after it.
EntriesKept ==
    \A k \in 1..Len(repo.history) :
        GetHistory(repo', repo.history[k].id, "ok")
          = GetHistory(repo, repo.history[k].id, "ok")

\* C15: a merge served by POST /api/merge with a working repository is
\* recorded: the step adds exactly one history entry, under a new id, whose
\* initial, response and result are the request's two inputs and the merged
\* domains the call returned, and an entry once stored is read back by its id
\* unchanged ever after.
C15_MergeRecordedOnce ==
    [][DOMAIN reply # {} => (MergeRecorded /\ EntriesKept)]_vars

\* The entry of a merge that attached certificates, read back by its id
\* through GET /api/history/{id}.
C15_Witness ==
    /\ DOMAIN reply # {}
    /\ reply.op = "getHistory" /\ reply.status = 200
    /\ reply.id = 2
    /\ reply.body[1].ID = 2
    /\ reply.body[1].Result = MergeAlone([initial  |-> reply.body[1].Initial,
                                          response |-> reply.body[1].Response])
    /\ reply.body[1].Result # reply.body[1].Initial
    /\ \E p \in Servers(reply.body[1].Result) :
         ServerAt(reply.body[1].Result, p).Certificates # << >>

\* C17: GET /api/history returns all merge history entries: after any
\* sequence of successful merges, every entry that was saved appears in the
\* list the endpoint answers with.
C17_ListReturnsAllEntries ==
    (DOMAIN reply # {} /\ reply.op = "listHistory" /\ reply.status = 200) =>
        \A k \in 1..Len(repo.history) :
            \E m \in 1..Len(reply.body) : reply.body[m].ID = repo.history[k].id

\* C16: passwords are never returned in API responses: no config in the body
\* of an answer of GET /api/configs, GET /api/configs/{id} or
\* POST /api/configs carries a password.
C16_PasswordsNeverReturned ==
    (DOMAIN reply # {}
       /\ reply.op \in {"listConfigs", "getConfig", "createConfig"}) =>
        \A k \in 1..Len(reply.body) : reply.body[k].Password = ""

\* C18: POST /api/configs saves a new NSX config: for every request body, a
\* call that succeeds makes the stored configs one more and leaves every
\* config stored before as it was.
C18_CreateAddsOneConfig ==
    [][(DOMAIN reply # {} /\ reply'.op = "createConfig" /\ reply'.status = 201) =>
          /\ Len(repo'.configs) = Len(repo.configs) + 1
          /\ \A k \in 1..Len(repo.configs) :
               \E m \in 1..Len(repo'.configs) : repo'.configs[m] = repo.configs[k]
      ]_vars

\* C21: the exit code tells the failure kind apart: 0 on success, 1 on a
\* general error, 2 on an authentication error, 3 on an NSX connection error
\* and 4 on a file read or write error. Of an answer of 400 or above the
\* model does not say whether it was a refused login, so 1 and 2 both pass
\* there.
C21_ExitCodeTellsFailureKind ==
    (DOMAIN run # {} /\ run.pc = "done") =>
        LET code == Execute(run.err)
        IN  /\ run.err = "" => code = 0
            /\ run.err \in {"failed to load response file",
                            "failed to save output", "failed to load file"}
                 => code = 4
            /\ (run.err = "pull failed" /\ run.cause = "request failed")
                 => code = 3
            /\ (run.err = "pull failed" /\ run.cause = "API error")
                 => code \in {1, 2}

(* --------------------------- cli: merge -------------------------------- *)

\* A file on disk: whether os.ReadFile succeeds, whether its bytes are JSON
\* text, the type of the JSON value, and the value (an array's elements or an
\* object's members).
File(readable, syntax, type, value) ==
    [readable |-> readable, syntax |-> syntax, type |-> type, value |-> value]

\* Files given with -i: missing, not JSON, an object where the array is
\* expected, an array whose element has the id only, and the arrays of
\* Requests.
InitialFiles ==
    {File(FALSE, TRUE, "array", << >>),
     File(TRUE, FALSE, "array", << >>),
     File(TRUE, TRUE, "object", << >>),
     File(TRUE, TRUE, "array", <<[id |-> "example.lab"]>>)}
    \cup {File(TRUE, TRUE, "array", marshalDomains(Requests[i].initial)) :
            i \in 1..Len(Requests)}

\* Files given with -r: missing, not JSON, an array where the object is
\* expected, an object that spells the key "result", and the responses of
\* Requests and of a certificate for URL_A.
ResponseDocs ==
    {File(FALSE, TRUE, "object", [results |-> << >>]),
     File(TRUE, FALSE, "object", [results |-> << >>]),
     File(TRUE, TRUE, "array", [results |-> << >>]),
     File(TRUE, TRUE, "object",
          [result |-> marshalResponse(Requests[1].response).results])}
    \cup {File(TRUE, TRUE, "object", marshalResponse(Requests[i].response)) :
            i \in 1..Len(Requests)}

\* json.Unmarshal into a Domain: a member the object lacks leaves the zero
\* value.
unmarshalDomain(object) ==
    LET has(k) == k \in DOMAIN object
    IN  Domain(IF has("id") THEN object.id ELSE "",
               IF has("domain_name") THEN object.domain_name ELSE "",
               IF has("base_dn") THEN object.base_dn ELSE "",
               IF has("alternative_domain_names")
               THEN object.alternative_domain_names ELSE << >>,
               IF has("ldap_servers")
               THEN [j \in 1..Len(object.ldap_servers) |->
                        unmarshalServer(object.ldap_servers[j])]
               ELSE << >>)

\* LoadInitialFromFile on a file: os.ReadFile, then json.Unmarshal into
\* []Domain.
readInitial(file) ==
    IF ~file.readable
    THEN [err |-> "failed to read initial file", domains |-> << >>]
    ELSE IF ~file.syntax \/ file.type # "array"
    THEN [err |-> "failed to parse initial JSON", domains |-> << >>]
    ELSE [err |-> "",
          domains |-> [i \in 1..Len(file.value) |-> unmarshalDomain(file.value[i])]]

\* LoadResponseFromFile on a file: os.ReadFile, then json.Unmarshal into a
\* CertificateResponse; an object without "results" leaves Results nil.
readResponse(file) ==
    IF ~file.readable
    THEN [err |-> "failed to read response file", response |-> [Results |-> << >>]]
    ELSE IF ~file.syntax \/ file.type # "object"
    THEN [err |-> "failed to parse response JSON", response |-> [Results |-> << >>]]
    ELSE [err |-> "",
          response |-> IF "results" \in DOMAIN file.value
                       THEN unmarshalResponse(file.value)
                       ELSE [Results |-> << >>]]

\* MergeFromFiles: merges counts the calls of Merge.
MergeFromFiles(initialFile, responseFile) ==
    LET d == readInitial(initialFile)
        r == readResponse(responseFile)
    IN  IF d.err # "" THEN [err |-> d.err, merges |-> 0, domains |-> << >>]
        ELSE IF r.err # "" THEN [err |-> r.err, merges |-> 0, domains |-> << >>]
        ELSE [err |-> "", merges |-> 1,
              domains |-> MergeAlone([initial |-> d.domains,
                                      response |-> r.response])]

\* `ldapmerge merge -i initialFile -r responseFile [-o file]` before its
\* first statement.
NewMergeRun(initialFile, responseFile, output) ==
    [cmd |-> "merge", initialFile |-> initialFile, responseFile |-> responseFile,
     output |-> output, pc |-> "merge", merges |-> 0, merged |-> << >>,
     err |-> "", stdout |-> << >>,
     file |-> [written |-> FALSE, content |-> << >>]]

InitMergeCmd ==
    /\ CallerIdle
    /\ heap = EmptyHeap
    /\ calls = << >>
    /\ ApiIdle
    /\ nsx = << >>
    /\ \E initialFile \in InitialFiles, responseFile \in ResponseDocs,
          output \in BOOLEAN :
         run = NewMergeRun(initialFile, responseFile, output)

\* runMerge up to the result of MergeFromFiles.
mergeFilesStep(r) ==
    LET m == MergeFromFiles(r.initialFile, r.responseFile)
    IN  IF m.err # ""
        THEN [r EXCEPT !.err = "merge failed", !.pc = "done"]
        ELSE [r EXCEPT !.merged = m.domains, !.merges = @ + m.merges,
                       !.pc = "write"]

MergeFiles ==
    /\ run.pc = "merge"
    /\ run' = mergeFilesStep(run)
    /\ UNCHANGED <<heap, callerVars, calls, apiVars, nsx>>

\* runMerge from ToJSON on: the JSON goes to the file of -o, or to stdout.
writeStep(r, written) ==
    IF r.output
    THEN IF written
         THEN [r EXCEPT !.file = [written |-> TRUE,
                                  content |-> marshalDomains(r.merged)],
                        !.pc = "done"]
         ELSE [r EXCEPT !.err = "failed to write output file", !.pc = "done"]
    ELSE [r EXCEPT !.stdout = Append(@, marshalDomains(r.merged)),
                   !.pc = "done"]

WriteOutput ==
    /\ run.pc = "write"
    /\ \E written \in (IF run.output THEN BOOLEAN ELSE {TRUE}) :
         run' = writeStep(run, written)
    /\ UNCHANGED <<heap, callerVars, calls, apiVars, nsx>>

NextMergeCmd == MergeFiles \/ WriteOutput

SpecMergeCmd == InitMergeCmd /\ [][NextMergeCmd]_vars

\* C22: when the initial file or the response file is unreadable or is not
\* valid JSON of the expected shape, the merge command ends with an error,
\* Merge was never called, no domains came back, and neither the output file
\* nor stdout was written.
C22_InvalidInputRejectedBeforeMerge ==
    LET DomainMembers == {"id", "domain_name", "base_dn",
                          "alternative_domain_names", "ldap_servers"}
        \* The file holds JSON of the shape the loader documents: an array
        \* of domains with their five members, or an object with "results".
        ExpectedInitial(file) ==
            /\ file.readable /\ file.syntax /\ file.type = "array"
            /\ \A i \in 1..Len(file.value) :
                  DomainMembers \subseteq DOMAIN file.value[i]
        ExpectedResponse(file) ==
            /\ file.readable /\ file.syntax /\ file.type = "object"
            /\ "results" \in DOMAIN file.value
    IN  (DOMAIN run # {} /\ run.pc = "done"
           /\ (\/ ~ExpectedInitial(run.initialFile)
               \/ ~ExpectedResponse(run.responseFile)))
          => /\ run.err # ""
             /\ run.merges = 0
             /\ run.merged = << >>
             /\ ~run.file.written
             /\ run.stdout = << >>

\* C23: the certificate index built from a response holds only non-empty
\* lists: a url is a key of the index exactly when some result with that url
\* has a non-empty PEM, so a url whose results all have an empty PEM is absent
\* from the index.
C23_IndexHoldsOnlyNonEmptyLists ==
    Returned =>
        /\ \A u \in DOMAIN index : index[u] # << >>
        /\ \A k \in 1..Len(Results) :
             Results[k].Item.URL \in DOMAIN index
               <=> PEMsFor(Results, Results[k].Item.URL) # << >>
                     /\ Results[k].Item.URL # ""

\* C26: sync changes only certificates on NSX: every identity source that sync
\* pulled and then PUT with success has a PUT body equal to the pulled source
\* in every field (display_name, description, domain_name, base_dn,
\* alternative_domain_names and each server's url, use_starttls, enabled,
\* bind_identity and password) except the servers' certificates.
C26_SyncChangesOnlyCertificates ==
    LET WithoutCertificates(source) ==
            [source EXCEPT !.LDAPServers =
                [i \in 1..Len(source.LDAPServers) |->
                    [source.LDAPServers[i] EXCEPT !.Certificates = << >>]]]
    IN  (DOMAIN run # {} /\ run.cmd = "sync") =>
            \A k \in 1..Len(run.console) :
                run.console[k].ok =>
                    \E j \in 1..Len(nsx.seeded) :
                        /\ nsx.seeded[j].ID = run.sources[k].ID
                        /\ WithoutCertificates(run.sources[k])
                             = WithoutCertificates(nsx.seeded[j])

\* C27: the outcome of the per-domain PUTs never changes the command's result:
\* once the pull and the loading succeeded, sync and nsx push return nil and
\* the process exits with 0, whether none, some or all of the PUTs failed.
C27_PutOutcomesNeverFailTheCommand ==
    (DOMAIN run # {} /\ run.pc = "done" /\ ~FailedBeforePush(run))
      => /\ run.err = ""
         /\ Execute(run.err) = 0

\* A run that ended after one PUT succeeded and another failed.
C27_Witness ==
    /\ DOMAIN run # {}
    /\ run.pc = "done"
    /\ run.successCount > 0
    /\ run.errorCount > 0
    /\ Len(run.attempted) = Len(run.sources)
    /\ run.err = ""

\* C29: config names stay unique: after any sequence of SaveConfig (insert
\* when the ID is 0, update otherwise) and DeleteConfig calls no two stored
\* configs have the same name; a SaveConfig that would make a duplicate name,
\* an update of an id that is not stored and a DeleteConfig of an id that is
\* not stored each return an error and leave the stored configs unchanged.
C29_ConfigNamesStayUnique ==
    [][LET Stored(rp, id) == \E k \in 1..Len(rp.configs) : rp.configs[k].ID = id
           Duplicate(rp, config) ==
               /\ config.ID = 0 \/ Stored(rp, config.ID)
               /\ \E k \in 1..Len(rp.configs) :
                    rp.configs[k].Name = config.Name /\ rp.configs[k].ID # config.ID
       IN  /\ \A a, b \in 1..Len(repo'.configs) :
                repo'.configs[a].Name = repo'.configs[b].Name => a = b
           /\ (repo.present /\ reply'.op = "createConfig"
                 /\ (\/ Duplicate(repo, reply'.request)
                     \/ reply'.request.ID # 0 /\ ~Stored(repo, reply'.request.ID)))
                => reply'.status = 500 /\ repo'.configs = repo.configs
           /\ (repo.present /\ reply'.op = "deleteConfig"
                 /\ ~Stored(repo, reply'.request))
                => reply'.status = 404 /\ repo'.configs = repo.configs
      ]_vars

\* Two configs are stored and the database works; the last request was an
\* update of the second config to the first one's name, and it was refused.
C29_Witness ==
    /\ DOMAIN reply # {}
    /\ reply.op = "createConfig"
    /\ reply.db = "ok"
    /\ reply.status = 500
    /\ reply.request.ID = 2
    /\ Len(repo.configs) = 2
    /\ \E a, b \in 1..2 :
         /\ repo.configs[a].ID = 1 /\ repo.configs[a].Name = reply.request.Name
         /\ repo.configs[b].ID = 2 /\ repo.configs[b].Name # reply.request.Name

(* --------------------------- nsx/mock: Server -------------------------- *)

\* Ids of request paths: the first is seeded, the second is not.
MockIDs == {"example.lab", "new.lab"}

\* r.BasicAuth() of the requests: the server's credentials, a wrong password,
\* a wrong user, and no Authorization header.
Credentials ==
    {[ok |-> TRUE, user |-> "admin", pass |-> "secret"],
     [ok |-> TRUE, user |-> "admin", pass |-> "wrong"],
     [ok |-> TRUE, user |-> "wrong", pass |-> "secret"],
     [ok |-> FALSE, user |-> "", pass |-> ""]}

\* Request bodies of PUT and PATCH: a source without resource_type whose id is
\* not the path's, a source that has the description only, and a body that is
\* not JSON.
MockBodies ==
    {[valid  |-> TRUE,
      source |-> LDAPIdentitySource("other.id", "New Lab", "", "", "new.lab",
                     "DC=new,DC=lab", << >>,
                     <<NSXServer(URL_A, FALSE, TRUE, "", "", <<"A">>)>>)],
     [valid  |-> TRUE,
      source |-> LDAPIdentitySource("", "", "patched", "LdapIdentitySource",
                     "", "", << >>, << >>)],
     [valid  |-> FALSE,
      source |-> LDAPIdentitySource("", "", "", "", "", "", << >>, << >>)]}

\* NewServer: the credentials and the seeded source.
NewServer ==
    [Username |-> "admin", Password |-> "secret",
     sources  |-> [id \in {"example.lab"} |-> SourcePool[1]]]

\* A response: the status, the sources of its body, and whether the mux was
\* reached.
Response(status, body, dispatched) ==
    [status |-> status, body |-> body, dispatched |-> dispatched]

\* The map after s.sources[id] = source.
store(sources, id, source) ==
    [i \in DOMAIN sources \cup {id} |-> IF i = id THEN source ELSE sources[i]]

getSource(s, id) ==
    IF id \notin DOMAIN s.sources
    THEN [server |-> s, response |-> Response(404, << >>, TRUE)]
    ELSE [server |-> s, response |-> Response(200, <<s.sources[id]>>, TRUE)]

\* Server.putSource on the map of the mock.
mockPutSource(s, id, body) ==
    IF ~body.valid
    THEN [server |-> s, response |-> Response(400, << >>, TRUE)]
    ELSE LET source == [body.source EXCEPT
                            !.ID = id,
                            !.ResourceType = IF @ = "" THEN "LdapIdentitySource"
                                             ELSE @]
         IN  [server   |-> [s EXCEPT !.sources = store(@, id, source)],
              response |-> Response(200, <<source>>, TRUE)]

\* patchSource that writes the body over a stored source and stores nothing
\* under a new id.
patchSourceStoredOnly(s, id, body) ==
    IF ~body.valid
    THEN [server |-> s, response |-> Response(400, << >>, TRUE)]
    ELSE IF id \notin DOMAIN s.sources
    THEN [server   |-> s,
          response |-> Response(200, <<[body.source EXCEPT !.ID = id]>>, TRUE)]
    ELSE [server   |-> [s EXCEPT !.sources =
                          store(@, id, [body.source EXCEPT !.ID = id])],
          response |-> Response(200, <<[body.source EXCEPT !.ID = id]>>, TRUE)]

patchSource(s, id, body) ==
    LET existing == IF id \in DOMAIN s.sources THEN s.sources[id]
                    ELSE LDAPIdentitySource(id, "", "", "LdapIdentitySource",
                                            "", "", << >>, << >>)
        patch    == body.source
        patched  ==
            [existing EXCEPT
               !.DisplayName = IF patch.DisplayName # "" THEN patch.DisplayName ELSE @,
               !.Description = IF patch.Description # "" THEN patch.Description ELSE @,
               !.DomainName  = IF patch.DomainName # "" THEN patch.DomainName ELSE @,
               !.BaseDN      = IF patch.BaseDN # "" THEN patch.BaseDN ELSE @,
               !.AlternativeDomainNames =
                   IF Len(patch.AlternativeDomainNames) > 0
                   THEN patch.AlternativeDomainNames ELSE @,
               !.LDAPServers = IF Len(patch.LDAPServers) > 0
                               THEN patch.LDAPServers ELSE @]
    IN  IF ~body.valid
        THEN [server |-> s, response |-> Response(400, << >>, TRUE)]
        ELSE [server   |-> [s EXCEPT !.sources = store(@, id, patched)],
              response |-> Response(200, <<patched>>, TRUE)]

deleteSource(s, id) ==
    IF id \notin DOMAIN s.sources
    THEN [server |-> s, response |-> Response(404, << >>, TRUE)]
    ELSE [server   |-> [s EXCEPT !.sources =
                          [i \in DOMAIN s.sources \ {id} |-> s.sources[i]]],
          response |-> Response(200, << >>, TRUE)]

\* The route of one source, by method.
handleLDAPIdentitySource(s, request) ==
    CASE request.method = "GET"    -> getSource(s, request.id)
      [] request.method = "PUT"    -> mockPutSource(s, request.id, request.body)
      [] request.method = "PATCH"  -> patchSource(s, request.id, request.body)
      [] request.method = "DELETE" -> deleteSource(s, request.id)

\* ServeHTTP that looks at the user name only.
ServeHTTPUserOnly(s, request) ==
    IF ~request.auth.ok \/ request.auth.user # s.Username
    THEN [server |-> s, response |-> Response(401, << >>, FALSE)]
    ELSE handleLDAPIdentitySource(s, request)

ServeHTTP(s, request) ==
    IF ~request.auth.ok \/ request.auth.user # s.Username
                        \/ request.auth.pass # s.Password
    THEN [server |-> s, response |-> Response(401, << >>, FALSE)]
    ELSE handleLDAPIdentitySource(s, request)

\* What a client method returns for a response: doRequest's error for a
\* status of 400 or more, else the decoded body.
clientResult(answer) ==
    IF answer.status >= 400
    THEN [err |-> "API error", result |-> << >>]
    ELSE [err |-> "", result |-> answer.body]

\* A request with any credentials.
Request(method, id, auth, body) ==
    [method |-> method, id |-> id, auth |-> auth, body |-> body]

\* The server answers one request; live and put keep what the requests so
\* far did: the ids seeded or written by an answered PUT or PATCH and not
\* deleted since, and the body of the PUT that wrote an id last, while nothing
\* else has written it since. wasLive tells whether the id was among them
\* when the request came.
Serve(request) ==
    \E served \in {ServeHTTP(nsx.server, request)} :
       LET wrote == served.response.status < 400
       IN  /\ nsx' = [server |-> served.server,
                      live   |-> IF wrote /\ request.method \in {"PUT", "PATCH"}
                                 THEN nsx.live \cup {request.id}
                                 ELSE IF wrote /\ request.method = "DELETE"
                                 THEN nsx.live \ {request.id}
                                 ELSE nsx.live,
                      put    |-> IF wrote /\ request.method = "PUT"
                                 THEN store(nsx.put, request.id, request.body.source)
                                 ELSE IF wrote /\ request.method \in {"PATCH", "DELETE"}
                                 THEN [i \in DOMAIN nsx.put \ {request.id} |-> nsx.put[i]]
                                 ELSE nsx.put]
           /\ reply' = [request  |-> request,
                        wasLive  |-> request.id \in nsx.live,
                        response |-> served.response,
                        client   |-> clientResult(served.response)]
           /\ UNCHANGED <<heap, callerVars, calls, run, repo>>

InitMock ==
    /\ CallerIdle
    /\ heap = EmptyHeap
    /\ calls = << >>
    /\ run = << >>
    /\ repo = << >>
    /\ nsx = [server |-> NewServer, live |-> DOMAIN NewServer.sources,
              put |-> << >>]
    /\ reply = [request  |-> Request("none", "", [ok |-> FALSE, user |-> "", pass |-> ""],
                                     [valid |-> FALSE, source |-> << >>]),
                wasLive  |-> FALSE,
                response |-> Response(0, << >>, FALSE),
                client   |-> [err |-> "", result |-> << >>]]

GetLDAPIdentitySource ==
    \E id \in MockIDs, auth \in Credentials, body \in {b \in MockBodies : ~b.valid} :
        Serve(Request("GET", id, auth, body))

PutLDAPIdentitySource ==
    \E id \in MockIDs, auth \in Credentials, body \in MockBodies :
        Serve(Request("PUT", id, auth, body))

CreateOrUpdateLDAPIdentitySource ==
    \E id \in MockIDs, auth \in Credentials, body \in MockBodies :
        Serve(Request("PATCH", id, auth, body))

DeleteLDAPIdentitySource ==
    \E id \in MockIDs, auth \in Credentials, body \in {b \in MockBodies : ~b.valid} :
        Serve(Request("DELETE", id, auth, body))

NextMock ==
    \/ GetLDAPIdentitySource
    \/ PutLDAPIdentitySource
    \/ CreateOrUpdateLDAPIdentitySource
    \/ DeleteLDAPIdentitySource

SpecMock == InitMock /\ [][NextMock]_vars

\* The request the step answers carried the server's credentials.
Authenticated(request) ==
    /\ request.auth.ok
    /\ request.auth.user = NewServer.Username
    /\ request.auth.pass = NewServer.Password

\* C24 as stated: over any sequence of authenticated PUT, PATCH, DELETE and
\* GET requests a GET of an id succeeds exactly when the id was seeded or
\* written by a PUT or PATCH and not deleted since; after a successful PUT the
\* GET returns the source put, with its id equal to the path id; a GET or
\* DELETE of an id that is not stored is answered 404.
C24_GetFollowsWrites ==
    (DOMAIN reply # {} /\ Authenticated(reply.request)) =>
        LET id == reply.request.id
        IN  /\ reply.request.method = "GET" =>
                 /\ reply.response.status = 200 <=> reply.wasLive
                 /\ ~reply.wasLive => reply.response.status = 404
                 /\ (reply.wasLive /\ id \in DOMAIN nsx.put) =>
                      reply.response.body = <<[nsx.put[id] EXCEPT !.ID = id]>>
            /\ (reply.request.method = "DELETE" /\ ~reply.wasLive) =>
                 reply.response.status = 404

\* C24 amended: the same, and the source the GET returns after a PUT is the
\* one put with its id set to the path id and its resource_type set to
\* "LdapIdentitySource" when the body had none.
C24_GetFollowsWritesWithDefaultType ==
    (DOMAIN reply # {} /\ Authenticated(reply.request)) =>
        LET id == reply.request.id
        IN  /\ reply.request.method = "GET" =>
                 /\ reply.response.status = 200 <=> reply.wasLive
                 /\ ~reply.wasLive => reply.response.status = 404
                 /\ (reply.wasLive /\ id \in DOMAIN nsx.put) =>
                      reply.response.body =
                        <<[nsx.put[id] EXCEPT
                             !.ID = id,
                             !.ResourceType = IF @ = "" THEN "LdapIdentitySource"
                                              ELSE @]>>
            /\ (reply.request.method = "DELETE" /\ ~reply.wasLive) =>
                 reply.response.status = 404

\* A GET returned the source that a PUT without resource_type wrote under an
\* id that was not seeded and is not the body's.
C24_Witness ==
    /\ DOMAIN reply # {}
    /\ reply.request.method = "GET"
    /\ Authenticated(reply.request)
    /\ reply.request.id = "new.lab"
    /\ reply.response.status = 200
    /\ "new.lab" \in DOMAIN nsx.put
    /\ nsx.put["new.lab"].ResourceType = ""
    /\ nsx.put["new.lab"].ID # "new.lab"
    /\ reply.response.body[1].ID = "new.lab"
    /\ reply.response.body[1].DisplayName = nsx.put["new.lab"].DisplayName

\* C25: a request without basic-auth credentials equal to the server's
\* username and password is answered 401, is never dispatched to a route
\* handler and leaves the stored sources unchanged; the client reports every
\* response with a status of 400 or more as an error and returns no result.
C25_UnauthenticatedRequestsRefused ==
    [][/\ ~Authenticated(reply'.request) =>
            /\ reply'.response.status = 401
            /\ ~reply'.response.dispatched
            /\ nsx'.server.sources = nsx.server.sources
       /\ reply'.response.status >= 400 =>
            /\ reply'.client.err # ""
            /\ reply'.client.result = << >>
      ]_vars

\* A PUT of a good body with the right user and a wrong password, sent while
\* the source written by an earlier PUT is stored.
C25_Witness ==
    /\ DOMAIN reply # {}
    /\ reply.request.method = "PUT"
    /\ reply.request.body.valid
    /\ reply.request.auth.ok
    /\ reply.request.auth.user = nsx.server.Username
    /\ reply.request.auth.pass # nsx.server.Password
    /\ reply.response.status = 401
    /\ reply.client.err # ""
    /\ "new.lab" \in DOMAIN nsx.server.sources
    /\ reply.request.id = "new.lab"
    /\ nsx.server.sources["new.lab"] # [reply.request.body.source EXCEPT !.ID = "new.lab"]

(* ------------------ nsx/mock: a GET beside a PATCH or PUT --------------- *)

\* The fields json.Encoder reads from a *LDAPIdentitySource, in the order of
\* the struct, and the fields patchSource assigns, in the order of its
\* statements.
EncodeOrder ==
    <<"ID", "DisplayName", "Description", "ResourceType", "DomainName",
      "BaseDN", "AlternativeDomainNames", "LDAPServers">>

PatchOrder ==
    <<"DisplayName", "Description", "DomainName", "BaseDN",
      "AlternativeDomainNames", "LDAPServers">>

\* The server holds the seeded source: structs are the LDAPIdentitySource
\* values in memory, sources maps an id to the address of one, mu is true
\* while a goroutine holds the write lock. One goroutine serves a GET of the
\* seeded id, another a PATCH or a PUT of it.
InitRace ==
    /\ CallerIdle
    /\ heap = EmptyHeap
    /\ calls = << >>
    /\ ApiIdle
    /\ nsx = [structs |-> <<NewServer.sources["example.lab"]>>,
              sources |-> [id \in {"example.lab"} |-> 1],
              mu      |-> FALSE]
    /\ \E method \in {"PUT", "PATCH"}, body \in {b \in MockBodies : b.valid} :
         run = [get   |-> [pc |-> "lookup", id |-> "example.lab", ptr |-> 0,
                           k |-> 1,
                           out |-> LDAPIdentitySource("", "", "", "", "", "",
                                                      << >>, << >>)],
                write |-> [method |-> method, id |-> "example.lab",
                           body |-> body, pc |-> "lock", ptr |-> 0, k |-> 1]]

\* getSource: s.mu.RLock(); source, ok := s.sources[id]; s.mu.RUnlock()
GetLookup ==
    /\ run.get.pc = "lookup"
    /\ ~nsx.mu
    /\ run' = [run EXCEPT !.get.ptr = nsx.sources[run.get.id],
                          !.get.pc = "encode"]
    /\ UNCHANGED <<heap, callerVars, calls, apiVars, nsx>>

\* getSource: json.NewEncoder(w).Encode(source) reads the next field of the
\* struct the pointer names; no lock is held.
GetEncodeField ==
    /\ run.get.pc = "encode"
    /\ LET field == EncodeOrder[run.get.k]
       IN  run' = [run EXCEPT
                     !.get.out = [@ EXCEPT ![field] = nsx.structs[run.get.ptr][field]],
                     !.get.k   = @ + 1,
                     !.get.pc  = IF run.get.k = Len(EncodeOrder) THEN "done" ELSE @]
    /\ UNCHANGED <<heap, callerVars, calls, apiVars, nsx>>

\* patchSource: s.mu.Lock(); existing, ok := s.sources[id], a new struct when
\* the id is not stored.
PatchLock ==
    /\ run.write.method = "PATCH"
    /\ run.write.pc = "lock"
    /\ ~nsx.mu
    /\ IF run.write.id \in DOMAIN nsx.sources
       THEN /\ nsx' = [nsx EXCEPT !.mu = TRUE]
            /\ run' = [run EXCEPT !.write.ptr = nsx.sources[run.write.id],
                                  !.write.pc = "assign"]
       ELSE /\ nsx' = [nsx EXCEPT
                         !.mu = TRUE,
                         !.structs = Append(@, LDAPIdentitySource(run.write.id,
                                        "", "", "LdapIdentitySource", "", "",
                                        << >>, << >>))]
            /\ run' = [run EXCEPT !.write.ptr = Len(nsx.structs) + 1,
                                  !.write.pc = "assign"]
    /\ UNCHANGED <<heap, callerVars, calls, apiVars>>

\* patchSource: the next `if patch.F != "" { existing.F = patch.F }`, a write
\* to the stored struct itself.
PatchAssign ==
    /\ run.write.pc = "assign"
    /\ LET field == PatchOrder[run.write.k]
           value == run.write.body.source[field]
           given == IF field \in {"AlternativeDomainNames", "LDAPServers"}
                    THEN Len(value) > 0 ELSE value # ""
       IN  /\ nsx' = [nsx EXCEPT !.structs[run.write.ptr] =
                        IF given THEN [@ EXCEPT ![field] = value] ELSE @]
           /\ run' = [run EXCEPT
                        !.write.k  = @ + 1,
                        !.write.pc = IF run.write.k = Len(PatchOrder)
                                     THEN "store" ELSE @]
    /\ UNCHANGED <<heap, callerVars, calls, apiVars>>

\* patchSource: s.sources[id] = existing, the answer, and the deferred Unlock.
PatchStore ==
    /\ run.write.pc = "store"
    /\ nsx' = [nsx EXCEPT !.sources = store(@, run.write.id, run.write.ptr),
                          !.mu = FALSE]
    /\ run' = [run EXCEPT !.write.pc = "done"]
    /\ UNCHANGED <<heap, callerVars, calls, apiVars>>

\* putSource: the body decoded into a new struct; s.mu.Lock();
\* s.sources[id] = &source; s.mu.Unlock()
PutStore ==
    /\ run.write.method = "PUT"
    /\ run.write.pc = "lock"
    /\ ~nsx.mu
    /\ nsx' = [nsx EXCEPT
                 !.structs = Append(@, [run.write.body.source EXCEPT
                                 !.ID = run.write.id,
                                 !.ResourceType = IF @ = "" THEN "LdapIdentitySource"
                                                  ELSE @]),
                 !.sources = store(@, run.write.id, Len(nsx.structs) + 1)]
    /\ run' = [run EXCEPT !.write.pc = "done"]
    /\ UNCHANGED <<heap, callerVars, calls, apiVars>>

NextRace ==
    \/ GetLookup
    \/ GetEncodeField
    \/ PatchLock
    \/ PatchAssign
    \/ PatchStore
    \/ PutStore

SpecRace == InitRace /\ [][NextRace]_vars

\* C28: the mock server's reads are atomic with respect to its writes: a GET
\* of an id that runs beside a PATCH or a PUT of the same id returns either
\* the complete record from before the write or the complete record from
\* after it, never a mixture of the two.
C28_ReadsAtomicWithWrites ==
    (DOMAIN run # {} /\ run.get.pc = "done") =>
        LET before == NewServer.sources[run.get.id]
            after  == handleLDAPIdentitySource(NewServer,
                          Request(run.write.method, run.write.id,
                                  [ok |-> TRUE, user |-> NewServer.Username,
                                   pass |-> NewServer.Password],
                                  run.write.body)).server.sources[run.get.id]
        IN  run.get.out \in {before, after}
====
